---- MODULE Spec2Model ----
(***************************************************************************)
(* Battery RUL data generation: the degradation model                      *)
(* (src/src/battery_degradation.py) and the telemetry generator's          *)
(* operating-mode state machine (src/src/telemetry_generator.py).          *)
(*                                                                         *)
(* Arithmetic.  The program computes in floating point; the model computes *)
(* in integers of fixed units:                                             *)
(*   - percentages (SOH, SOH loss, resistance increase) in micro-percent,  *)
(*     SohUnitsPerPct units per 1 %, each loss rounded down to a unit;     *)
(*   - current_capacity_ah in units of initial_capacity_ah / FullSoh, so   *)
(*     that initial_capacity_ah * (soh / 100) is exact;                    *)
(*   - calendar_age_days in hours (24 units per day);                      *)
(*   - cycle_count in units of 1 / initial_capacity_ah cycles;             *)
(*   - current_resistance_mohm as initial_resistance_mohm times the        *)
(*     product of the multipliers (1 + inc / FullSoh) applied so far, kept *)
(*     as the bag of the increments inc, so that the product is exact;     *)
(*   - the Arrhenius factor exp((Ea/k)(1/Tref - 1/T)) tabulated in tenths  *)
(*     at the temperatures of Temps (exactly 1.0 at 25 C, as exp(0)).      *)
(***************************************************************************)
EXTENDS Integers, Naturals, Sequences, FiniteSets, Bags, TLC

VARIABLES
    bat,        \* the BatteryDegradationModel object under test
    before,     \* bat as it was before the last call
    last,       \* the last call: operation, arguments, return value
    calls,      \* number of calls made so far
    model1,     \* first of two otherwise identical batteries
    model2,     \* second of the two
    start,      \* the state both were in before the calls compared
    mid1,       \* model1 after the first of its calls
    mid2,       \* model2 after the first of its calls
    done1,      \* calls made on model1
    done2,      \* calls made on model2
    script,     \* the arguments of the calls compared
    battery_models, \* TelemetryGenerator.battery_models
    system_type,    \* TelemetryGenerator.system_type
    current_mode,   \* TelemetryGenerator.current_mode
    current_soc,    \* TelemetryGenerator.current_soc
    current_temp,   \* TelemetryGenerator.current_temp
    step,       \* the arguments of the last simulate_time_step
    emitted,    \* the rows the last simulate_time_step returned
    steps,      \* calls of simulate_time_step made so far
    args,       \* the arguments drawn for a function applied on its own
    result,     \* what the function returned for args
    twin,       \* the BatteryECMDigitalTwin object
    snapshot,   \* the dictionary its last step returned
    estimate,   \* the SOC estimate of its last step before clamping
    twin_steps, \* calls of its step made so far
    np_random,  \* the global RandomState of numpy, one per Python process
    runs,       \* the models and generator built and the rows emitted, by process
                \* (SpecSeed) or by generator of process 1 (SpecShare)
    series      \* a call of generate_timeseries: its locals and its rows

degVars == <<bat, before, last, calls>>
pairVars == <<model1, model2, start, mid1, mid2, done1, done2, script>>
genVars == <<battery_models, system_type, current_mode, current_soc, current_temp,
             step, emitted, steps>>
fnVars == <<args, result>>
twinVars == <<twin, snapshot, estimate, twin_steps>>
runVars == <<np_random, runs, series>>

(***************************************************************************)
(* Bounds of the model                                                     *)
(***************************************************************************)
MaxCalls == 3          \* calls made on one battery
MaxTime == 2           \* current_time values passed to check_sudden_failure

(***************************************************************************)
(* Units                                                                   *)
(***************************************************************************)
SohUnitsPerPct == 1000 * 1000
FullSoh == 100 * SohUnitsPerPct
HoursPerDay == 24
DaysPerYear == 365

(***************************************************************************)
(* Class constants                                                         *)
(***************************************************************************)
ProfileNames == {"healthy", "accelerated", "failing"}

\* PROFILES; the factors in tenths, the failure probability in 1/10000
PROFILES ==
    [healthy     |-> [soh_decline_pct_per_year |-> 2,
                      resistance_increase_pct_per_year |-> 5,
                      cycle_stress_factor_x10 |-> 10,
                      temp_acceleration_factor_x10 |-> 10,
                      sudden_failure_probability_e4 |-> 1],
     accelerated |-> [soh_decline_pct_per_year |-> 8,
                      resistance_increase_pct_per_year |-> 15,
                      cycle_stress_factor_x10 |-> 15,
                      temp_acceleration_factor_x10 |-> 13,
                      sudden_failure_probability_e4 |-> 10],
     failing     |-> [soh_decline_pct_per_year |-> 25,
                      resistance_increase_pct_per_year |-> 40,
                      cycle_stress_factor_x10 |-> 20,
                      temp_acceleration_factor_x10 |-> 15,
                      sudden_failure_probability_e4 |-> 100]]

TEMP_REFERENCE_C == 25
DOD_STRESS_EXPONENT == 2
\* CYCLE_BASE_CAPACITY_LOSS_PCT = 0.001, as its reciprocal
CYCLE_BASE_CAPACITY_LOSS_PER_PCT == 1000

failure_modes ==
    {"thermal_runaway", "internal_short", "dry_out", "grid_corrosion", "sulfation"}

NoDate == -1           \* failure_date = None
NoMode == "None"       \* failure_mode = None

(***************************************************************************)
(* Inputs                                                                  *)
(***************************************************************************)
Temps == {15, 25, 35}                        \* degrees C
\* update_calendar_aging(delta_time_hours, avg_temperature_c, centivolts):
\* no time, 30 days, 1 year and 5 years; below, inside (both ends included)
\* and above the optimal float voltage band
CalendarInputs ==
    {<<0, 25, 1365>>, <<0, 35, 1390>>,
     <<720, 25, 1365>>, <<720, 25, 1350>>, <<720, 25, 1370>>,
     <<720, 25, 1330>>, <<720, 25, 1390>>, <<720, 15, 1365>>,
     <<8760, 25, 1365>>, <<8760, 35, 1365>>, <<43800, 35, 1390>>}
\* update_cycle_aging(ah_throughput, depth_of_discharge_pct, temperature_c)
CycleInputs ==
    {<<0, 100, 25>>, <<120, 100, 25>>, <<120, 50, 35>>, <<1200, 100, 15>>}
Draws == {0, 150, 5000}                      \* np.random.random(), in 1/10000
Thresholds == {60, 80}                       \* eol_soh_threshold, percent
InitialCapacityAh == 120

(***************************************************************************)
(* Helpers                                                                 *)
(***************************************************************************)
Max(a, b) == IF a >= b THEN a ELSE b

\* <<q, r>> with a * b = q * c + r and 0 <= r < c, without forming a * b
RECURSIVE MulDivRem(_, _, _)
MulDivRem(a, b, c) ==
    IF b = 0 THEN <<0, 0>>
    ELSE LET h == MulDivRem(a, b \div 2, c)
             q2 == 2 * h[1] + (IF 2 * h[2] >= c THEN 1 ELSE 0)
             r2 == IF 2 * h[2] >= c THEN 2 * h[2] - c ELSE 2 * h[2]
             qa == IF b % 2 = 1 THEN a \div c ELSE 0
             ra == IF b % 2 = 1 THEN a % c ELSE 0
         IN  IF r2 + ra >= c THEN <<q2 + qa + 1, r2 + ra - c>>
                             ELSE <<q2 + qa, r2 + ra>>

MulDiv(a, b, c) == MulDivRem(a, b, c)[1]

\* bag b with one more copy of x; a multiplier of exactly 1 (x = 0) is dropped
Times1Plus(b, x) == IF x = 0 THEN b ELSE b (+) SetToBag({x})

(***************************************************************************)
(* BatteryDegradationModel                                                 *)
(***************************************************************************)
\* __init__ with an explicit profile
NewBattery(profile) ==
    [profile_name |-> profile,
     current_capacity_ah |-> FullSoh,
     current_resistance_mohm |-> EmptyBag,
     current_soh_pct |-> FullSoh,
     cumulative_ah_throughput |-> 0,
     cycle_count |-> 0,
     failed |-> FALSE,
     failure_date |-> NoDate,
     failure_mode |-> NoMode,
     calendar_age_days |-> 0,
     temperature_stress_accumulated |-> 0,
     cycle_stress_accumulated |-> 0]

\* exp((E_a / k_B) * (1/T_ref - 1/T)), in tenths
get_temperature_acceleration_factor(temperature_c) ==
    CASE temperature_c = TEMP_REFERENCE_C -> 10
      [] temperature_c = 15 -> 4
      [] temperature_c = 35 -> 24

\* voltage_stress with the upper end of the optimal band at the float target
\* 13.65 V instead of 13.70 V
voltage_stress_narrow_band(avg_float_voltage_v) ==
    IF avg_float_voltage_v > 1365
    THEN 1000 + (avg_float_voltage_v - 1365) * 5
    ELSE IF avg_float_voltage_v < 1350
         THEN 1000 + (1350 - avg_float_voltage_v) * 3
         ELSE 1000

\* voltage_stress of update_calendar_aging, in thousandths; volts in centivolts
voltage_stress(avg_float_voltage_v) ==
    IF avg_float_voltage_v > 1370
    THEN 1000 + (avg_float_voltage_v - 1370) * 5
    ELSE IF avg_float_voltage_v < 1350
         THEN 1000 + (1350 - avg_float_voltage_v) * 3
         ELSE 1000

\* temp_accel of update_calendar_aging, in hundredths
calendar_temp_accel(self, avg_temperature_c) ==
    get_temperature_acceleration_factor(avg_temperature_c)
        * PROFILES[self.profile_name].temp_acceleration_factor_x10

\* rate_pct_per_year / 365 * temp_accel * voltage_stress * delta_days, in
\* micro-percent: the factors carry 10 * 10 * 1000
AgedOver(rate_pct_per_year, temp_accel, v_stress, delta_time_hours) ==
    MulDiv(rate_pct_per_year * temp_accel * v_stress
               * (SohUnitsPerPct \div (10 * 10 * 1000)),
           delta_time_hours, HoursPerDay * DaysPerYear)

\* soh_loss of update_calendar_aging
calendar_soh_loss(self, delta_time_hours, avg_temperature_c, avg_float_voltage_v) ==
    AgedOver(PROFILES[self.profile_name].soh_decline_pct_per_year,
             calendar_temp_accel(self, avg_temperature_c),
             voltage_stress(avg_float_voltage_v), delta_time_hours)

\* resistance_increase with its sign inverted (multiplier 1 - increase / 100)
calendar_resistance_decrease(self, delta_time_hours, avg_temperature_c, avg_float_voltage_v) ==
    0 - AgedOver(PROFILES[self.profile_name].resistance_increase_pct_per_year,
                 calendar_temp_accel(self, avg_temperature_c),
                 voltage_stress(avg_float_voltage_v), delta_time_hours)

\* resistance_increase of update_calendar_aging
calendar_resistance_increase(self, delta_time_hours, avg_temperature_c, avg_float_voltage_v) ==
    AgedOver(PROFILES[self.profile_name].resistance_increase_pct_per_year,
             calendar_temp_accel(self, avg_temperature_c),
             voltage_stress(avg_float_voltage_v), delta_time_hours)

\* update_calendar_aging without the max(0, ...) clamp of the new SOH
update_calendar_aging_unclamped(self, delta_time_hours, avg_temperature_c, avg_float_voltage_v) ==
    LET soh_loss == calendar_soh_loss(self, delta_time_hours,
                                      avg_temperature_c, avg_float_voltage_v)
        soh == self.current_soh_pct - soh_loss
    IN  [self EXCEPT
           !.calendar_age_days = @ + delta_time_hours,
           !.current_soh_pct = soh,
           !.current_capacity_ah = soh,
           !.current_resistance_mohm =
               Times1Plus(@, calendar_resistance_increase(self, delta_time_hours,
                              avg_temperature_c, avg_float_voltage_v)),
           !.temperature_stress_accumulated =
               @ + (avg_temperature_c - TEMP_REFERENCE_C) * delta_time_hours]

update_calendar_aging(self, delta_time_hours, avg_temperature_c, avg_float_voltage_v) ==
    LET soh_loss == calendar_soh_loss(self, delta_time_hours,
                                      avg_temperature_c, avg_float_voltage_v)
        soh == Max(0, self.current_soh_pct - soh_loss)
    IN  [self EXCEPT
           !.calendar_age_days = @ + delta_time_hours,
           !.current_soh_pct = soh,
           !.current_capacity_ah = soh,
           !.current_resistance_mohm =
               Times1Plus(@, calendar_resistance_increase(self, delta_time_hours,
                              avg_temperature_c, avg_float_voltage_v)),
           !.temperature_stress_accumulated =
               @ + (avg_temperature_c - TEMP_REFERENCE_C) * delta_time_hours]

RECURSIVE Pow(_, _)
Pow(x, n) == IF n = 0 THEN 1 ELSE x * Pow(x, n - 1)

\* cycles taken against the present capacity: ah / current_capacity_ah
equivalent_cycles_of_current(self, ah_throughput) ==
    IF self.current_capacity_ah > 0 THEN MulDiv(FullSoh, ah_throughput, self.current_capacity_ah) ELSE 0

\* cycles of update_cycle_aging, in units of 1 / initial_capacity_ah
equivalent_cycles(self, ah_throughput) == ah_throughput

\* capacity_loss_pct of update_cycle_aging, in micro-percent:
\* 0.001 * (ah / initial) * (dod / 100)^2 * temp_accel * cycle_factor
cycle_capacity_loss(self, ah_throughput, depth_of_discharge_pct, temperature_c) ==
    MulDiv(equivalent_cycles(self, ah_throughput)
               * Pow(depth_of_discharge_pct, DOD_STRESS_EXPONENT),
           get_temperature_acceleration_factor(temperature_c)
               * PROFILES[self.profile_name].cycle_stress_factor_x10,
           InitialCapacityAh
               * ((CYCLE_BASE_CAPACITY_LOSS_PER_PCT
                      * Pow(100, DOD_STRESS_EXPONENT) * 10 * 10)
                  \div SohUnitsPerPct))

update_cycle_aging(self, ah_throughput, depth_of_discharge_pct, temperature_c) ==
    LET capacity_loss_pct == cycle_capacity_loss(self, ah_throughput,
                                 depth_of_discharge_pct, temperature_c)
        soh == Max(0, self.current_soh_pct - capacity_loss_pct)
    IN  [self EXCEPT
           !.cycle_count = @ + equivalent_cycles(self, ah_throughput),
           !.cumulative_ah_throughput = @ + ah_throughput,
           !.current_soh_pct = soh,
           !.current_capacity_ah = soh,
           !.current_resistance_mohm = Times1Plus(@, capacity_loss_pct * 2),
           !.cycle_stress_accumulated =
               @ + equivalent_cycles(self, ah_throughput)
                     * Pow(depth_of_discharge_pct, DOD_STRESS_EXPONENT)]

\* failure_prob of check_sudden_failure, in 1/10000
failure_prob(self) ==
    PROFILES[self.profile_name].sudden_failure_probability_e4
        * (IF self.current_soh_pct < 80 * SohUnitsPerPct THEN 2 ELSE 1)
        * (IF self.current_soh_pct < 60 * SohUnitsPerPct THEN 3 ELSE 1)
        * (IF self.current_soh_pct < 40 * SohUnitsPerPct THEN 5 ELSE 1)

\* check_sudden_failure without its early return
already_failed_never(self) == FALSE

\* the early return of check_sudden_failure
already_failed(self) == self.failed

\* check_sudden_failure making its random trial before the early return
check_sudden_failure_trial_first(self, current_time, draw, mode) ==
    IF already_failed(self)
    THEN [self |-> self, ret |-> TRUE, drew |-> TRUE]
    ELSE IF draw < failure_prob(self)
         THEN [self |-> [self EXCEPT !.failed = TRUE,
                                     !.failure_date = current_time,
                                     !.current_soh_pct = 0,
                                     !.failure_mode = mode],
               ret |-> TRUE, drew |-> TRUE]
         ELSE [self |-> self, ret |-> FALSE, drew |-> TRUE]

\* check_sudden_failure with np.random.random() = draw and
\* np.random.choice(failure_modes) = mode: the object after the call, the
\* value returned, and whether the random trial was made
check_sudden_failure(self, current_time, draw, mode) ==
    IF already_failed(self)
    THEN [self |-> self, ret |-> TRUE, drew |-> FALSE]
    ELSE IF draw < failure_prob(self)
         THEN [self |-> [self EXCEPT !.failed = TRUE,
                                     !.failure_date = current_time,
                                     !.current_soh_pct = 0,
                                     !.failure_mode = mode],
               ret |-> TRUE, drew |-> TRUE]
         ELSE [self |-> self, ret |-> FALSE, drew |-> TRUE]

\* a non-negative number of days as whole + num / den, 0 <= num < den
Days(whole, num, den) == [whole |-> whole, num |-> num, den |-> den]
DaysQuot(a, b, c) == LET qr == MulDivRem(a, b, c) IN Days(qr[1], qr[2], c)

\* estimate_rul_days with the profile's base rate taken per year, not per day
estimate_rul_days_yearly_rate(self, eol_soh_threshold) ==
    LET threshold == eol_soh_threshold * SohUnitsPerPct
        soh_remaining == self.current_soh_pct - threshold
        soh_lost == FullSoh - self.current_soh_pct
    IN  IF self.failed THEN Days(0, 0, 1)
        ELSE IF self.current_soh_pct <= threshold THEN Days(0, 0, 1)
        ELSE IF self.calendar_age_days > 0
             THEN IF soh_lost <= 0
                  THEN Days(9999, 0, 1)
                  ELSE DaysQuot(soh_remaining, self.calendar_age_days, HoursPerDay * soh_lost)
             ELSE DaysQuot(soh_remaining, 1, PROFILES[self.profile_name].soh_decline_pct_per_year * SohUnitsPerPct)

\* estimate_rul_days(eol_soh_threshold), the threshold in percent.
\* soh_remaining / degradation_rate with degradation_rate =
\* (100 - soh) / calendar_age_days, or soh_decline_pct_per_year / 365
estimate_rul_days(self, eol_soh_threshold) ==
    LET threshold == eol_soh_threshold * SohUnitsPerPct
        soh_remaining == self.current_soh_pct - threshold
        soh_lost == FullSoh - self.current_soh_pct
    IN  IF self.failed THEN Days(0, 0, 1)
        ELSE IF self.current_soh_pct <= threshold THEN Days(0, 0, 1)
        ELSE IF self.calendar_age_days > 0
             THEN IF soh_lost <= 0
                  THEN Days(9999, 0, 1)
                  ELSE DaysQuot(soh_remaining, self.calendar_age_days,
                                HoursPerDay * soh_lost)
             ELSE DaysQuot(soh_remaining, DaysPerYear,
                           PROFILES[self.profile_name].soh_decline_pct_per_year
                               * SohUnitsPerPct)

(***************************************************************************)
(* TelemetryGenerator                                                      *)
(*                                                                         *)
(* SOC is held in thousandths of a percent, string current in amperes, a   *)
(* time step in hours.  The measurement noise added to a current or a      *)
(* reading is not modelled apart from the values named below.              *)
(***************************************************************************)
BatteryIds == {"B1", "B2"}
MODES == {"float", "boost", "discharge", "idle", "equalize"}
SystemTypes == {"RECTIFIER", "UPS"}
FLOAT_VOLTAGE_TARGET == 1365
DISCHARGE_CURRENT_RANGE ==
    [RECTIFIER |-> <<50, 150>>, UPS |-> <<80, 200>>]
SocUnitsPerPct == 1000
FullSoc == 100 * SocUnitsPerPct
TempMin == 10
TempMax == 50

Min(a, b) == IF a <= b THEN a ELSE b
Abs(x) == IF x < 0 THEN 0 - x ELSE x
Clip(x, lo, hi) == Max(lo, Min(x, hi))

\* min(self.current_soc.values())
MinSoc(soc) == CHOOSE s \in {soc[b] : b \in BatteryIds} :
                   \A b \in BatteryIds : s <= soc[b]

RECURSIVE SumSoc(_, _)
SumSoc(soc, ids) ==
    IF ids = {} THEN 0
    ELSE LET b == CHOOSE x \in ids : TRUE IN soc[b] + SumSoc(soc, ids \ {b})

\* np.mean(list(self.current_soc.values())) < pct
MeanSocBelow(soc, pct) ==
    SumSoc(soc, BatteryIds) < pct * SocUnitsPerPct * Cardinality(BatteryIds)

\* determine_mode with the scheduled equalization tested before the grid
determine_mode_equalize_first(self_mode, self_soc, grid_available, scheduled_equalize) ==
    IF scheduled_equalize THEN "equalize"
    ELSE IF ~grid_available THEN "discharge"
    ELSE IF self_mode = "discharge"
         THEN IF MinSoc(self_soc) < 95 * SocUnitsPerPct THEN "boost" ELSE "float"
    ELSE IF self_mode = "boost"
         THEN IF MinSoc(self_soc) >= 99 * SocUnitsPerPct THEN "float" ELSE "boost"
    ELSE "float"

\* determine_mode boosting whenever the SOC is low, whatever the mode before
determine_mode_boost_when_low(self_mode, self_soc, grid_available, scheduled_equalize) ==
    IF ~grid_available THEN "discharge"
    ELSE IF scheduled_equalize THEN "equalize"
    ELSE IF self_mode = "boost"
         THEN IF MinSoc(self_soc) >= 99 * SocUnitsPerPct THEN "float" ELSE "boost"
    ELSE IF MinSoc(self_soc) < 95 * SocUnitsPerPct THEN "boost" ELSE "float"

\* determine_mode, self being given by its current_mode and current_soc
determine_mode(self_mode, self_soc, grid_available, scheduled_equalize) ==
    IF ~grid_available THEN "discharge"
    ELSE IF scheduled_equalize THEN "equalize"
    ELSE IF self_mode = "discharge"
         THEN IF MinSoc(self_soc) < 95 * SocUnitsPerPct THEN "boost" ELSE "float"
    ELSE IF self_mode = "boost"
         THEN IF MinSoc(self_soc) >= 99 * SocUnitsPerPct THEN "float" ELSE "boost"
    ELSE "float"

\* lo + u * (hi - lo) for a uniform draw u that is 0 or 1
Uniform(lo, hi, u) == lo + u * (hi - lo)

\* generate_string_current: the current before its noise, for the uniform
\* draw u and the load factor in tenths; float current 0.5 .. 2.0 A is
\* drawn from the whole amperes 1 .. 2
generate_string_current(self_soc, self_system_type, mode, load_factor_x10, u) ==
    CASE mode = "float" -> Uniform(1, 2, u)
      [] mode = "boost" ->
            IF MeanSocBelow(self_soc, 80) THEN Uniform(24, 30, u)
            ELSE IF MeanSocBelow(self_soc, 90) THEN Uniform(15, 21, u)
            ELSE Uniform(6, 12, u)
      [] mode = "discharge" ->
            0 - (Uniform(DISCHARGE_CURRENT_RANGE[self_system_type][1],
                         DISCHARGE_CURRENT_RANGE[self_system_type][2], u)
                     * load_factor_x10) \div 10
      [] mode = "equalize" -> Uniform(5, 15, u)
      [] OTHER -> 0

\* model.current_capacity_ah in thousandths of an ampere-hour
capacity_mah(model) ==
    MulDiv(model.current_capacity_ah, InitialCapacityAh, FullSoh \div 1000)

\* |ah_change / current_capacity * 100| of update_soc; a change of 100 % or
\* more is held as 100 %, which np.clip(.., 0, 100) does not tell apart
soc_change(model, ah_change) ==
    IF Abs(ah_change) * 1000 >= capacity_mah(model)
    THEN FullSoc
    ELSE MulDiv(FullSoc * 1000, Abs(ah_change), capacity_mah(model))

\* new_soc of update_soc without np.clip(.., 0, 100)
new_soc_unclipped(model, soc, ah_change) ==
    IF model.current_capacity_ah > 0
    THEN soc + (IF ah_change < 0 THEN 0 - soc_change(model, ah_change)
                                 ELSE soc_change(model, ah_change))
    ELSE 0

\* the new self.current_soc[battery_id] of update_soc
new_soc(model, soc, ah_change) ==
    IF model.current_capacity_ah > 0
    THEN Clip(soc + (IF ah_change < 0 THEN 0 - soc_change(model, ah_change)
                                      ELSE soc_change(model, ah_change)),
              0, FullSoc)
    ELSE 0

\* update_soc: the new current_soc and battery_models
update_soc(self_models, self_soc, current_a, delta_time_hours) ==
    LET ah_change == current_a * delta_time_hours
    IN  [current_soc |->
             [b \in BatteryIds |-> new_soc(self_models[b], self_soc[b], ah_change)],
         battery_models |->
             [b \in BatteryIds |->
                 IF current_a < 0
                 THEN [self_models[b] EXCEPT
                          !.cumulative_ah_throughput = @ + Abs(ah_change)]
                 ELSE self_models[b]]]

\* indoor_temp of simulate_time_step; noise is the value drawn by
\* np.random.normal, in whole degrees
indoor_temperature(hvac_status, outdoor_temp_c, noise) ==
    IF hvac_status \in {"running", "degraded"}
    THEN 24 + noise
    ELSE 24 + (outdoor_temp_c - 24) \div 2

\* the body of the loop of simulate_time_step over the battery models, with
\* the whole percents of 100 - current_soc as depth of discharge
degrade(model, soc, mode, string_current, delta_time_hours, indoor_temp, timestamp, draw, fmode) ==
    LET avg_voltage == IF mode = "float" THEN FLOAT_VOLTAGE_TARGET ELSE 1390
        aged == update_calendar_aging(model, delta_time_hours, indoor_temp,
                                      avg_voltage)
        cycled == IF string_current < 0
                  THEN update_cycle_aging(aged,
                           Abs(string_current * delta_time_hours),
                           (FullSoc - soc) \div SocUnitsPerPct, indoor_temp)
                  ELSE aged
    IN  check_sudden_failure(cycled, timestamp, draw, fmode).self

\* the fields of generate_jar_telemetry's row that come from the models
jar_row(model, soc, battery_temp) ==
    [soc_pct |-> soc, soh_pct |-> model.current_soh_pct,
     resistance_mohm |-> model.current_resistance_mohm,
     temperature_c |-> battery_temp]

\* generate_string_telemetry's row if self.current_mode already held the
\* mode of the step
string_row_of_new_mode(self_mode, mode, string_current_a) ==
    [mode |-> mode, current_a |-> string_current_a,
     equalize_flag |-> (mode = "equalize"),
     generator_test_flag |-> FALSE,
     transfer_event_flag |-> (mode = "discharge" /\ mode # "discharge")]

\* the mode and flags of generate_string_telemetry's row
string_row(self_mode, mode, string_current_a) ==
    [mode |-> mode, current_a |-> string_current_a,
     equalize_flag |-> (mode = "equalize"),
     generator_test_flag |-> FALSE,
     transfer_event_flag |-> (mode = "discharge" /\ self_mode # "discharge")]

(***************************************************************************)
(* BatteryECMDigitalTwin                                                   *)
(*                                                                         *)
(* SOC in thousandths of a percent, SOH and capacity in millionths of a    *)
(* percent (of the nominal capacity), throughput and cycle_count in        *)
(* thousandths of an ampere-hour, resistances in micro-ohm.  The RC        *)
(* voltages V1, V2 and the covariance P of the filter are not held: what   *)
(* the Kalman gain times the innovation adds to the predicted SOC is given *)
(* to ekf_update as its correction, the measured voltage being free.       *)
(***************************************************************************)
NominalCapacityAh == 120
SecondsPerHour == 3600

NewTwin(initial_soh) ==
    [soc |-> FullSoc,
     soh |-> initial_soh * SohUnitsPerPct,
     current_capacity_ah |-> initial_soh * SohUnitsPerPct,
     R0 |-> 3500, R1 |-> 1500, R2 |-> 1000,
     temperature_c |-> 25,
     cycle_count |-> 0,
     ah_throughput |-> 0]

\* self.current_capacity_ah in thousandths of an ampere-hour
twin_capacity_mah(self) ==
    MulDiv(self.current_capacity_ah, NominalCapacityAh, FullSoh \div 1000)

\* |current_a * dt / 3600| in thousandths of an ampere-hour
twin_ah(current_a, dt) == (Abs(current_a) * dt * 1000) \div SecondsPerHour

\* ah / current_capacity_ah * 100, in SOC units
twin_soc_change(self, ah_mah) == MulDiv(FullSoc, ah_mah, twin_capacity_mah(self))

\* np.exp(0.03 * (temperature_c - 25.0)), in thousandths
twin_temp_accel(temperature_c) ==
    CASE temperature_c = 25 -> 1000
      [] temperature_c = 35 -> 1350

\* 0.0035 * (1.5 - 0.5 * soh / 100) and alike, base in micro-ohm
aged_resistance(base, soh) == (base * 3) \div 2 - MulDiv(soh, base \div 2, FullSoh)

\* update_soh(dt_hours, temperature_c), with dt_hours = dt / 3600
update_soh(self, dt, temperature_c) ==
    LET calendar_fade == MulDiv(228 * twin_temp_accel(temperature_c), dt,
                                SecondsPerHour * 1000)
        soh == Max(0, self.soh - calendar_fade)
    IN  [self EXCEPT !.soh = soh,
                     !.current_capacity_ah = soh,
                     !.R0 = aged_resistance(3500, soh),
                     !.R1 = aged_resistance(1500, soh),
                     !.R2 = aged_resistance(1000, soh)]

\* update_soc of the twin: coulomb counting with 99 % charge efficiency
twin_update_soc(self, current_a, dt) ==
    LET ah_change == IF current_a > 0
                     THEN (twin_ah(current_a, dt) * 99) \div 100
                     ELSE twin_ah(current_a, dt)
        delta_soc == IF current_a < 0 THEN 0 - twin_soc_change(self, ah_change)
                                       ELSE twin_soc_change(self, ah_change)
    IN  [self EXCEPT
           !.soc = Clip(@ + delta_soc, 0, FullSoc),
           !.ah_throughput = @ + ah_change,
           !.cycle_count = IF ah_change > 100 THEN @ + ah_change ELSE @]

\* x_updated[0] of ekf_update: the predicted SOC plus K[0] * innovation
ekf_soc_estimate(self, current_a, dt, correction) ==
    self.soc
      + (IF current_a < 0 THEN 0 - twin_soc_change(self, twin_ah(current_a, dt))
                          ELSE twin_soc_change(self, twin_ah(current_a, dt)))
      + correction

\* cycle_accel of predict_rul, in tenths; cycle_count is held in thousandths
\* of an ampere-hour of throughput, nominal_capacity_ah to the cycle
cycle_accel(self) ==
    IF self.cycle_count > 500 * NominalCapacityAh * 1000 THEN 15
    ELSE IF self.cycle_count > 200 * NominalCapacityAh * 1000 THEN 12
    ELSE 10

\* ekf_update tracking the throughput as update_soc does
ekf_update_counting(self, current_a, dt, correction) ==
    [self EXCEPT
       !.soc = Clip(ekf_soc_estimate(self, current_a, dt, correction), 0, FullSoc),
       !.ah_throughput = @ + twin_ah(current_a, dt),
       !.cycle_count = IF twin_ah(current_a, dt) > 100
                       THEN @ + twin_ah(current_a, dt) ELSE @]

\* ekf_update
ekf_update(self, current_a, dt, correction) ==
    [self EXCEPT
       !.soc = Clip(ekf_soc_estimate(self, current_a, dt, correction), 0, FullSoc)]

\* the keys of the dictionary step returns and the kind of their values
SnapshotFields ==
    [battery_id |-> "str", soc |-> "float", soh |-> "float",
     capacity_ah |-> "float", R0 |-> "float", R1 |-> "float", R2 |-> "float",
     C1 |-> "float", C2 |-> "float", V1 |-> "float", V2 |-> "float",
     predicted_voltage |-> "float", voltage_error |-> "float",
     rul_days |-> "float", cycle_count |-> "float",
     ah_throughput |-> "float", temperature_c |-> "float"]

\* the values of the dictionary step returns that come from the state held
twin_snapshot(self) ==
    [soc |-> self.soc, soh |-> self.soh,
     capacity_ah |-> self.current_capacity_ah,
     R0 |-> self.R0, R1 |-> self.R1, R2 |-> self.R2,
     cycle_count |-> self.cycle_count,
     ah_throughput |-> self.ah_throughput,
     temperature_c |-> self.temperature_c]

\* step(measured_voltage, measured_current, temperature_c, dt, use_ekf):
\* the twin after the call
twin_step(self, measured_current, temperature_c, dt, use_ekf, correction) ==
    LET heated == [self EXCEPT !.temperature_c = temperature_c]
        estimated == IF use_ekf
                     THEN ekf_update(heated, measured_current, dt, correction)
                     ELSE twin_update_soc(heated, measured_current, dt)
    IN  update_soh(estimated, dt, temperature_c)

(***************************************************************************)
(* numpy.random                                                            *)
(*                                                                         *)
(* Every np.random.* call of the program reads and advances the one global *)
(* RandomState of its Python process.  The state is held as the value it   *)
(* was last seeded with (or, never seeded, the entropy the operating       *)
(* system gave it at import) and the number of draws made since; Random    *)
(* stands for the generator's output function, a fixed function of both,   *)
(* in hundredths.                                                          *)
(***************************************************************************)
Procs == {1, 2}

\* np.random.seed(seed)
Seeded(seed) == [seed |-> seed, count |-> 0]

\* the value the next draw returns, in 0 .. 99
Random(state) == (state.seed * 37 + state.count * 61 + 11) % 100

\* the state after a draw
Advanced(state) == [state EXCEPT !.count = @ + 1]

NoModel == [profile_name |-> "None"]
NoRun == [models |-> [b \in BatteryIds |-> NoModel], generator |-> FALSE,
          current_mode |-> "float",
          current_soc |-> [b \in BatteryIds |-> FullSoc],
          rows |-> <<>>]

\* generate_timeseries at its entry: the locals set before the loop
NoSeries == [current_time |-> 0, step_count |-> 0, outdoor_temp |-> 30,
             hvac_status |-> "running", rows |-> [jar |-> <<>>, string |-> <<>>], env |-> <<>>,
             raised |-> FALSE, returned |-> FALSE]

RunIdle ==
    /\ np_random = [p \in Procs |-> Seeded(0)]
    /\ runs = [p \in Procs |-> NoRun]
    /\ series = NoSeries

(***************************************************************************)
(* Specification Spec: one battery, any sequence of calls of its methods   *)
(***************************************************************************)
NoCall == [op |-> "init", args |-> <<>>, ret |-> FALSE, drew |-> FALSE,
           rul |-> Days(0, 0, 1)]

NoScript == [calendar |-> <<0, 25, 1365>>, cycle |-> <<0, 100, 25>>, preaged |-> 0]

\* the variables of a specification that does not use them
DegIdle ==
    /\ bat = NewBattery("healthy")
    /\ before = bat
    /\ last = NoCall
    /\ calls = 0

PairIdle ==
    /\ model1 = NewBattery("healthy")
    /\ model2 = model1
    /\ start = model1
    /\ mid1 = model1
    /\ mid2 = model1
    /\ done1 = 0
    /\ done2 = 0
    /\ script = NoScript
NoStep == [called |-> FALSE, grid_available |-> TRUE,
           scheduled_equalize |-> FALSE, mode_before |-> "float",
           soc_before |-> [b \in BatteryIds |-> FullSoc],
           models_before |-> [b \in BatteryIds |-> NewBattery("healthy")],
           delta_time_hours |-> 0]

NoRows ==
    [jar |-> [b \in BatteryIds |->
                 jar_row(NewBattery("healthy"), FullSoc, 25)],
     string |-> string_row("float", "float", 0)]

GenIdle ==
    /\ battery_models = [b \in BatteryIds |-> NewBattery("healthy")]
    /\ system_type = "RECTIFIER"
    /\ current_mode = "float"
    /\ current_soc = [b \in BatteryIds |-> FullSoc]
    /\ current_temp = [b \in BatteryIds |-> 25]
    /\ step = NoStep
    /\ emitted = NoRows
    /\ steps = 0

NoArgs == [none |-> TRUE]
NoResult == [done |-> FALSE]

FnIdle ==
    /\ args = NoArgs
    /\ result = NoResult

NoEstimate == [stepped |-> FALSE, use_ekf |-> FALSE, x_updated |-> FullSoc,
               measured_current |-> 0, dt |-> 0, simple_steps |-> 0]

TwinIdle ==
    /\ twin = NewTwin(100)
    /\ snapshot = twin_snapshot(twin)
    /\ estimate = NoEstimate
    /\ twin_steps = 0

DegInit ==
    /\ \E profile \in ProfileNames : bat = NewBattery(profile)
    /\ before = bat
    /\ last = NoCall
    /\ calls = 0

Init == DegInit /\ PairIdle /\ GenIdle /\ FnIdle /\ TwinIdle /\ RunIdle

CallCalendarAging ==
    /\ calls < MaxCalls
    /\ \E in \in CalendarInputs :
          /\ bat' = update_calendar_aging(bat, in[1], in[2], in[3])
          /\ last' = [NoCall EXCEPT !.op = "update_calendar_aging", !.args = in]
    /\ before' = bat
    /\ calls' = calls + 1
    /\ UNCHANGED <<pairVars, genVars, fnVars, twinVars, runVars>>

CallCycleAging ==
    /\ calls < MaxCalls
    /\ \E in \in CycleInputs :
          /\ bat' = update_cycle_aging(bat, in[1], in[2], in[3])
          /\ last' = [NoCall EXCEPT !.op = "update_cycle_aging", !.args = in]
    /\ before' = bat
    /\ calls' = calls + 1
    /\ UNCHANGED <<pairVars, genVars, fnVars, twinVars, runVars>>

\* the random draws are made only when the call gets past its early return
CallCheckSuddenFailure ==
    /\ calls < MaxCalls
    /\ \E current_time \in 1..MaxTime :
       \E draw \in (IF already_failed(bat) THEN {0} ELSE Draws) :
       \E mode \in (IF ~already_failed(bat) /\ draw < failure_prob(bat)
                    THEN failure_modes ELSE {NoMode}) :
          LET r == check_sudden_failure(bat, current_time, draw, mode)
          IN  /\ bat' = r.self
              /\ last' = [NoCall EXCEPT !.op = "check_sudden_failure",
                                        !.args = <<current_time>>,
                                        !.ret = r.ret, !.drew = r.drew]
    /\ before' = bat
    /\ calls' = calls + 1
    /\ UNCHANGED <<pairVars, genVars, fnVars, twinVars, runVars>>

CallEstimateRul ==
    /\ calls < MaxCalls
    /\ \E eol_soh_threshold \in Thresholds :
          last' = [NoCall EXCEPT !.op = "estimate_rul_days",
                                 !.args = <<eol_soh_threshold>>,
                                 !.rul = estimate_rul_days(bat, eol_soh_threshold)]
    /\ bat' = bat
    /\ before' = bat
    /\ calls' = calls + 1
    /\ UNCHANGED <<pairVars, genVars, fnVars, twinVars, runVars>>

Next ==
    \/ CallCalendarAging
    \/ CallCycleAging
    \/ CallCheckSuddenFailure
    \/ CallEstimateRul

vars == <<degVars, pairVars, genVars, fnVars, twinVars, runVars>>

Spec == Init /\ [][Next]_vars

(***************************************************************************)
(* Comparing resistances: each is the initial resistance times the product *)
(* of (1 + inc / FullSoh) over its bag of increments                       *)
(***************************************************************************)
ResistanceNotDecreased(r0, r1) ==
    /\ r0 (-) r1 = EmptyBag
    /\ \A inc \in BagToSet(r1 (-) r0) : inc >= 0

ResistanceIncreased(r0, r1) ==
    /\ ResistanceNotDecreased(r0, r1)
    /\ \E inc \in BagToSet(r1 (-) r0) : inc > 0

(***************************************************************************)
(* Claims checked under Spec                                               *)
(***************************************************************************)

\* C1: in every reachable state current_capacity_ah = initial_capacity_ah *
\* current_soh_pct / 100 (capacity is held in units of initial_capacity_ah /
\* FullSoh, so the two numbers are equal).  Violated by the call of
\* check_sudden_failure on which the battery fails.
C1_CapacityTracksSoh == bat.current_capacity_ah = bat.current_soh_pct

\* C2: after any sequence of calls 0 <= current_soh_pct <= 100 and
\* current_capacity_ah >= 0.
C2_SohInRange ==
    /\ 0 <= bat.current_soh_pct
    /\ bat.current_soh_pct <= FullSoh
    /\ bat.current_capacity_ah >= 0

\* C2 witness: calendar aging whose loss exceeds the SOH that was left
C2_ClampedByAging ==
    /\ last.op = "update_calendar_aging"
    /\ ~before.failed
    /\ before.current_soh_pct > 0
    /\ calendar_soh_loss(before, last.args[1], last.args[2], last.args[3])
          > before.current_soh_pct
    /\ bat.current_soh_pct = 0

\* C3: once failed, every later call leaves failed true, SOH 0 and
\* failure_date and failure_mode as set at the moment of failure (before is
\* the state one call earlier, so the property carries to all later states).
C3_FailurePermanent ==
    /\ bat.failed =>
          /\ bat.current_soh_pct = 0
          /\ bat.failure_mode \in failure_modes
          /\ bat.failure_date \in 1..MaxTime
    /\ before.failed =>
          /\ bat.failed
          /\ bat.failure_date = before.failure_date
          /\ bat.failure_mode = before.failure_mode

\* C3 witness: a call that does something, made on a battery that has failed
C3_CalledAfterFailure ==
    /\ before.failed
    /\ \/ last.op = "update_calendar_aging" /\ last.args[1] > 0
       \/ last.op = "update_cycle_aging" /\ last.args[1] > 0
       \/ last.op = "check_sudden_failure" /\ last.args[1] /= before.failure_date

\* C4: check_sudden_failure on a failed battery returns true, changes no
\* field and makes no random trial, whatever current_time is.
C4_CheckIdempotentOnceFailed ==
    (last.op = "check_sudden_failure" /\ before.failed) =>
        /\ last.ret = TRUE
        /\ bat = before
        /\ ~last.drew

\* C4 witness: the check repeated at another time than the failure's
C4_CheckedAgainLater ==
    /\ last.op = "check_sudden_failure"
    /\ before.failed
    /\ last.args[1] /= before.failure_date

\* C5: update_calendar_aging never decreases current_resistance_mohm and
\* increases it when elapsed_hours > 0.
C5_ResistanceGrowsWithAge ==
    last.op = "update_calendar_aging" =>
        /\ ResistanceNotDecreased(before.current_resistance_mohm,
                                  bat.current_resistance_mohm)
        /\ last.args[1] > 0 =>
              ResistanceIncreased(before.current_resistance_mohm,
                                  bat.current_resistance_mohm)

\* C5 witness: time elapses on a battery that has aged before
C5_AgedSomeTime ==
    /\ last.op = "update_calendar_aging"
    /\ last.args[1] > 0
    /\ before.calendar_age_days > 0

\* The loss the claim states for update_calendar_aging at the reference
\* temperature and an optimal float voltage: yearly decline * (hours / 24) / 365
UnstressedLoss(self, delta_time_hours) ==
    MulDiv(PROFILES[self.profile_name].soh_decline_pct_per_year * SohUnitsPerPct, delta_time_hours, HoursPerDay * DaysPerYear)

\* The same loss times the profile's temp_acceleration_factor
ProfileStressedLoss(self, delta_time_hours) ==
    MulDiv(PROFILES[self.profile_name].soh_decline_pct_per_year * PROFILES[self.profile_name].temp_acceleration_factor_x10 * (SohUnitsPerPct \div 10), delta_time_hours, HoursPerDay * DaysPerYear)

InOptimalBand(volts) == 1350 <= volts /\ volts <= 1370
OffBandVolts == {1300, 1330, 1349, 1371, 1390, 1450}

\* the last call was update_calendar_aging at 25 C with a float voltage in
\* [13.50, 13.70] V, and the SOH was not clamped at 0
AgedUnstressed ==
    /\ last.op = "update_calendar_aging"
    /\ last.args[2] = TEMP_REFERENCE_C
    /\ InOptimalBand(last.args[3])
    /\ bat.current_soh_pct > 0

TestAgeHours == 24 * 30
TestFloatVolts == 1365
TestAgeFloor == 75 * SohUnitsPerPct

RulAge ==
    /\ bat.current_soh_pct > TestAgeFloor
    /\ bat' = update_calendar_aging(bat, TestAgeHours, TEMP_REFERENCE_C, TestFloatVolts)
    /\ last' = [NoCall EXCEPT !.op = "update_calendar_aging", !.args = <<TestAgeHours, TEMP_REFERENCE_C, TestFloatVolts>>]
    /\ before' = bat
    /\ calls' = calls + 1
    /\ UNCHANGED <<pairVars, genVars, fnVars, twinVars, runVars>>

RulCycle ==
    /\ calls = 0
    /\ \E in \in CycleInputs :
          /\ bat' = update_cycle_aging(bat, in[1], in[2], in[3])
          /\ last' = [NoCall EXCEPT !.op = "update_cycle_aging", !.args = in]
    /\ before' = bat
    /\ calls' = calls + 1
    /\ UNCHANGED <<pairVars, genVars, fnVars, twinVars, runVars>>

RulCheckSuddenFailure ==
    /\ ~bat.failed
    /\ \E draw \in Draws :
       \E mode \in (IF draw < failure_prob(bat) THEN {"dry_out", "sulfation"} ELSE {NoMode}) :
          LET r == check_sudden_failure(bat, 1, draw, mode)
          IN  /\ bat' = r.self
              /\ last' = [NoCall EXCEPT !.op = "check_sudden_failure", !.args = <<1>>, !.ret = r.ret, !.drew = r.drew]
    /\ before' = bat
    /\ calls' = calls
    /\ UNCHANGED <<pairVars, genVars, fnVars, twinVars, runVars>>

RulEstimate ==
    /\ \E eol_soh_threshold \in Thresholds :
          last' = [NoCall EXCEPT !.op = "estimate_rul_days", !.args = <<eol_soh_threshold>>,
                                 !.rul = estimate_rul_days(bat, eol_soh_threshold)]
    /\ bat' = bat
    /\ before' = bat
    /\ calls' = calls
    /\ UNCHANGED <<pairVars, genVars, fnVars, twinVars, runVars>>

NextRul ==
    \/ RulAge
    \/ RulCycle
    \/ RulCheckSuddenFailure
    \/ RulEstimate

InitRul == DegInit /\ PairIdle /\ GenIdle /\ FnIdle /\ TwinIdle /\ RunIdle

SpecRul == InitRul /\ [][NextRul]_vars

DaysZero(d) == d.whole = 0 /\ d.num = 0
DaysPositive(d) == d.whole > 0 \/ d.num > 0
DaysAbove(d, n) == d.whole > n \/ (d.whole = n /\ d.num > 0)
DaysBelow(d, n) == d.whole < n

\* the ageing loop "while current_soh_pct > 85: update_calendar_aging(...)"
\* has just ended on a battery that only this loop has aged
AgedToJustUnder85(self) ==
    /\ ~self.failed
    /\ self.cycle_count = 0
    /\ self.current_soh_pct <= 85 * SohUnitsPerPct
    /\ self.current_soh_pct + calendar_soh_loss(self, TestAgeHours, TEMP_REFERENCE_C, TestFloatVolts) > 85 * SohUnitsPerPct

\* C9: estimate_rul_days(threshold) is 0 when the battery is failed or its
\* SOH <= threshold and positive otherwise; above 1000 days for a fresh
\* healthy battery with threshold 80; positive and below 1000 days once that
\* battery has been aged by the calendar to just under 85 %.
C9_RulEstimate ==
    last.op = "estimate_rul_days" =>
        LET threshold == last.args[1] IN
        /\ (bat.failed \/ bat.current_soh_pct <= threshold * SohUnitsPerPct) => DaysZero(last.rul)
        /\ (~bat.failed /\ bat.current_soh_pct > threshold * SohUnitsPerPct) => DaysPositive(last.rul)
        /\ (bat = NewBattery("healthy") /\ threshold = 80) => DaysAbove(last.rul, 1000)
        /\ (bat.profile_name = "healthy" /\ AgedToJustUnder85(bat) /\ threshold = 80) =>
              DaysPositive(last.rul) /\ DaysBelow(last.rul, 1000)

\* C9 witness: the estimate taken when the healthy battery has just been
\* aged under 85 %
C9_EstimatedJustUnder85 ==
    /\ last.op = "estimate_rul_days"
    /\ last.args[1] = 80
    /\ bat.profile_name = "healthy"
    /\ AgedToJustUnder85(bat)
    /\ DaysPositive(last.rul)

(***************************************************************************)
(* Specification SpecOrder: two identical batteries, both aged alike       *)
(* beforehand; model1 gets update_calendar_aging then update_cycle_aging,  *)
(* model2 the same two calls in the other order.                           *)
(***************************************************************************)
MaxPreAge == 1         \* calls made alike on both batteries beforehand

OrderInit ==
    /\ \E profile \in ProfileNames : model1 = NewBattery(profile)
    /\ model2 = model1
    /\ start = model1
    /\ mid1 = model1
    /\ mid2 = model1
    /\ done1 = 0
    /\ done2 = 0
    /\ \E cal \in CalendarInputs, cyc \in CycleInputs :
          script = [calendar |-> cal, cycle |-> cyc, preaged |-> 0]

OrderPreAgeCalendar ==
    /\ done1 = 0 /\ done2 = 0 /\ script.preaged < MaxPreAge
    /\ \E in \in CalendarInputs :
          model1' = update_calendar_aging(model1, in[1], in[2], in[3])
    /\ model2' = model1'
    /\ start' = model1'
    /\ mid1' = model1'
    /\ mid2' = model1'
    /\ script' = [script EXCEPT !.preaged = @ + 1]
    /\ UNCHANGED <<done1, done2, degVars, genVars, fnVars, twinVars, runVars>>

OrderPreAgeCycle ==
    /\ done1 = 0 /\ done2 = 0 /\ script.preaged < MaxPreAge
    /\ \E in \in CycleInputs :
          model1' = update_cycle_aging(model1, in[1], in[2], in[3])
    /\ model2' = model1'
    /\ start' = model1'
    /\ mid1' = model1'
    /\ mid2' = model1'
    /\ script' = [script EXCEPT !.preaged = @ + 1]
    /\ UNCHANGED <<done1, done2, degVars, genVars, fnVars, twinVars, runVars>>

Order1Calendar ==
    /\ done1 = 0
    /\ model1' = update_calendar_aging(model1, script.calendar[1], script.calendar[2], script.calendar[3])
    /\ mid1' = model1'
    /\ done1' = 1
    /\ UNCHANGED <<model2, start, mid2, done2, script, degVars, genVars, fnVars, twinVars, runVars>>

Order1Cycle ==
    /\ done1 = 1
    /\ model1' = update_cycle_aging(model1, script.cycle[1], script.cycle[2], script.cycle[3])
    /\ done1' = 2
    /\ UNCHANGED <<model2, start, mid1, mid2, done2, script, degVars, genVars, fnVars, twinVars, runVars>>

Order2Cycle ==
    /\ done2 = 0
    /\ model2' = update_cycle_aging(model2, script.cycle[1], script.cycle[2], script.cycle[3])
    /\ mid2' = model2'
    /\ done2' = 1
    /\ UNCHANGED <<model1, start, mid1, done1, script, degVars, genVars, fnVars, twinVars, runVars>>

Order2Calendar ==
    /\ done2 = 1
    /\ model2' = update_calendar_aging(model2, script.calendar[1], script.calendar[2], script.calendar[3])
    /\ done2' = 2
    /\ UNCHANGED <<model1, start, mid1, mid2, done1, script, degVars, genVars, fnVars, twinVars, runVars>>

NextOrder ==
    \/ OrderPreAgeCalendar
    \/ OrderPreAgeCycle
    \/ Order1Calendar
    \/ Order1Cycle
    \/ Order2Cycle
    \/ Order2Calendar

InitOrder == OrderInit /\ DegIdle /\ GenIdle /\ FnIdle /\ TwinIdle /\ RunIdle

SpecOrder == InitOrder /\ [][NextOrder]_vars

SohLost(from, to) == from.current_soh_pct - to.current_soh_pct

\* C6: the SOH loss of the two calls together is the sum of the losses each
\* causes alone (while SOH is not clamped at 0); SOH, capacity and
\* resistance do not depend on which call comes first; update_cycle_aging
\* leaves calendar_age_days alone and has the same effect whatever the age.
C6_AgingAdditive ==
    /\ done2 >= 1 => mid2.calendar_age_days = start.calendar_age_days
    /\ done1 = 2 => model1.calendar_age_days = mid1.calendar_age_days
    /\ (done1 = 2 /\ done2 = 2) =>
          /\ model1.current_soh_pct = model2.current_soh_pct
          /\ model1.current_capacity_ah = model2.current_capacity_ah
          /\ model1.current_resistance_mohm = model2.current_resistance_mohm
          /\ model1.current_soh_pct > 0 =>
                /\ SohLost(start, model1) = SohLost(start, mid1) + SohLost(start, mid2)
                /\ SohLost(mid1, model1) = SohLost(start, mid2)
                /\ SohLost(mid2, model2) = SohLost(start, mid1)

\* C6 witness: both orders run to the end on batteries aged beforehand, both
\* calls with a loss, nothing clamped
C6_BothOrdersRun ==
    /\ done1 = 2 /\ done2 = 2
    /\ script.preaged = 1
    /\ start.current_soh_pct < FullSoh
    /\ SohLost(start, mid1) > 0
    /\ SohLost(start, mid2) > 0
    /\ model1.current_soh_pct > 0

(***************************************************************************)
(* Specification SpecDouble: test_no_double_counting_calendar_cycle.       *)
(* model1 is aged by the calendar only, one year at 25 C and 13.65 V;      *)
(* model2 by cycling only, 100 calls of update_cycle_aging(120, 100, 25).  *)
(***************************************************************************)
TestCycles == 100

DoubleInit ==
    /\ \E profile \in ProfileNames : model1 = NewBattery(profile)
    /\ model2 = model1
    /\ start = model1
    /\ mid1 = model1
    /\ mid2 = model1
    /\ done1 = 0
    /\ done2 = 0
    /\ script = [NoScript EXCEPT !.calendar = <<24 * 365, 25, 1365>>, !.cycle = <<120, 100, 25>>]

DoubleCalendar ==
    /\ done1 = 0
    /\ model1' = update_calendar_aging(model1, script.calendar[1], script.calendar[2], script.calendar[3])
    /\ done1' = 1
    /\ UNCHANGED <<model2, start, mid1, mid2, done2, script, degVars, genVars, fnVars, twinVars, runVars>>

DoubleCycle ==
    /\ done2 < TestCycles
    /\ model2' = update_cycle_aging(model2, script.cycle[1], script.cycle[2], script.cycle[3])
    /\ done2' = done2 + 1
    /\ UNCHANGED <<model1, start, mid1, mid2, done1, script, degVars, genVars, fnVars, twinVars, runVars>>

NextDouble ==
    \/ DoubleCalendar
    \/ DoubleCycle

InitDouble == DoubleInit /\ DegIdle /\ GenIdle /\ FnIdle /\ TwinIdle /\ RunIdle

SpecDouble == InitDouble /\ [][NextDouble]_vars

\* C7: for two healthy batteries the loss of one year of calendar aging and
\* the loss of 100 full cycles are both > 0 and each is less than 3 times
\* the other.  Violated: the calendar loss is 2 %, the cycle loss 0.1 %.
C7_LossesWithinFactor3 ==
    (model1.profile_name = "healthy" /\ done1 = 1 /\ done2 = TestCycles) =>
        LET calendar_only_loss == SohLost(start, model1)
            cycle_only_loss == SohLost(start, model2)
        IN  /\ calendar_only_loss > 0
            /\ cycle_only_loss > 0
            /\ cycle_only_loss < calendar_only_loss * 3
            /\ calendar_only_loss < cycle_only_loss * 3

(***************************************************************************)
(* Specification SpecGen: one TelemetryGenerator over two batteries, any   *)
(* sequence of calls of simulate_time_step                                 *)
(***************************************************************************)
MaxSteps == 3          \* calls of simulate_time_step
StepHours == 1         \* delta_time_hours
LoadFactorX10 == 8     \* load_factor, in tenths

\* hours of hot, over-voltage service after which a failing battery given to
\* the generator has no capacity left
WornHours == 5 * DaysPerYear * HoursPerDay

\* the generators built: the profile of each battery, the hours it has
\* served before, and the system type
GenSetups ==
    {[profiles |-> [B1 |-> "healthy", B2 |-> "healthy"],
      served |-> [B1 |-> 0, B2 |-> 0], system_type |-> "RECTIFIER"],
     [profiles |-> [B1 |-> "healthy", B2 |-> "failing"],
      served |-> [B1 |-> 0, B2 |-> 0], system_type |-> "UPS"],
     [profiles |-> [B1 |-> "healthy", B2 |-> "failing"],
      served |-> [B1 |-> 0, B2 |-> WornHours], system_type |-> "RECTIFIER"]}

\* a battery model as it is given to TelemetryGenerator.__init__
ServedBattery(profile, hours) ==
    update_calendar_aging(NewBattery(profile), hours, 35, 1390)

\* what the environment and the random draws give one call: the HVAC status
\* and outdoor temperature, the noise of the indoor temperature, the draw
\* of each battery's failure trial and the failure mode chosen, and each
\* battery's temperature reading after its noise and np.clip(.., 10, 50)
EnvCases ==
    {[hvac_status |-> "running", outdoor_temp_c |-> 30, noise |-> 1,
      draw |-> [B1 |-> 5000, B2 |-> 5000], fmode |-> "dry_out",
      reading |-> [B1 |-> 25, B2 |-> 25]],
     [hvac_status |-> "fault", outdoor_temp_c |-> 46, noise |-> 0,
      draw |-> [B1 |-> 5000, B2 |-> 0], fmode |-> "thermal_runaway",
      reading |-> [B1 |-> 25, B2 |-> TempMax]],
     [hvac_status |-> "degraded", outdoor_temp_c |-> 30, noise |-> -9,
      draw |-> [B1 |-> 0, B2 |-> 5000], fmode |-> "sulfation",
      reading |-> [B1 |-> TempMin, B2 |-> 25]]}

GenInit ==
    /\ \E setup \in GenSetups :
          /\ battery_models =
                [b \in BatteryIds |->
                    ServedBattery(setup.profiles[b], setup.served[b])]
          /\ system_type = setup.system_type
    /\ current_mode = "float"
    /\ current_soc = [b \in BatteryIds |-> FullSoc]
    /\ current_temp = [b \in BatteryIds |-> 25]
    /\ step = NoStep
    /\ emitted = NoRows
    /\ steps = 0

SimulateTimeStep ==
    /\ steps < MaxSteps
    /\ \E grid_available \in BOOLEAN, scheduled_equalize \in BOOLEAN, u \in {0, 1}, env \in EnvCases :
          LET mode == determine_mode(current_mode, current_soc,
                                     grid_available, scheduled_equalize)
              string_current == generate_string_current(current_soc,
                                    system_type, mode, LoadFactorX10, u)
              counted == update_soc(battery_models, current_soc,
                                    string_current, StepHours)
              indoor_temp == indoor_temperature(env.hvac_status,
                                 env.outdoor_temp_c, env.noise)
              models == [b \in BatteryIds |->
                            degrade(counted.battery_models[b],
                                    counted.current_soc[b], mode,
                                    string_current, StepHours, indoor_temp,
                                    steps + 1, env.draw[b], env.fmode)]
          IN  /\ battery_models' = models
              /\ current_soc' = counted.current_soc
              /\ current_temp' = env.reading
              /\ emitted' =
                    [jar |-> [b \in BatteryIds |->
                                 jar_row(models[b], counted.current_soc[b],
                                         env.reading[b])],
                     string |-> string_row(current_mode, mode, string_current)]
              /\ current_mode' = mode
              /\ step' = [called |-> TRUE,
                          grid_available |-> grid_available,
                          scheduled_equalize |-> scheduled_equalize,
                          mode_before |-> current_mode,
                          soc_before |-> current_soc,
                          models_before |-> battery_models,
                          delta_time_hours |-> StepHours]
    /\ steps' = steps + 1
    /\ UNCHANGED <<system_type, degVars, pairVars, fnVars, twinVars, runVars>>

NextGen == SimulateTimeStep

InitGen == GenInit /\ DegIdle /\ PairIdle /\ FnIdle /\ TwinIdle /\ RunIdle

SpecGen == InitGen /\ [][NextGen]_vars

(***************************************************************************)
(* C10: simulate_time_step runs in discharge mode whenever the grid is     *)
(* unavailable, whatever the previous mode, the SOC and the equalization   *)
(* schedule; and in equalize mode whenever the grid is available and an    *)
(* equalization is scheduled, whatever the previous mode and the SOC.  The *)
(* mode is the one of the emitted string row and the one kept as           *)
(* current_mode.                                                           *)
(***************************************************************************)
C10_ModePriority ==
    step.called =>
        /\ ~step.grid_available =>
              current_mode = "discharge" /\ emitted.string.mode = "discharge"
        /\ step.grid_available /\ step.scheduled_equalize =>
              current_mode = "equalize" /\ emitted.string.mode = "equalize"

\* both priorities have overridden the recovery logic: an outage with an
\* equalization scheduled met a generator boosting below 99 % SOC, and a
\* scheduled equalization met one just out of a discharge below 95 % SOC
C10_OverrodeRecovery ==
    /\ step.called
    /\ \/ /\ ~step.grid_available /\ step.scheduled_equalize
          /\ step.mode_before = "boost"
          /\ MinSoc(step.soc_before) < 99 * SocUnitsPerPct
          /\ current_mode = "discharge"
       \/ /\ step.grid_available /\ step.scheduled_equalize
          /\ step.mode_before = "discharge"
          /\ MinSoc(step.soc_before) < 95 * SocUnitsPerPct
          /\ current_mode = "equalize"

(***************************************************************************)
(* Specification SpecMode: two TelemetryGenerators, each in a state a      *)
(* generator is left in by simulate_time_step, are given the same grid     *)
(* availability and equalization schedule and choose their modes           *)
(***************************************************************************)
SocLevels == {94, 95, 96, 98, 99, 100}       \* percent

\* current_mode is only ever assigned a value returned by determine_mode
ReturnedModes == {"float", "boost", "discharge", "equalize"}

\* the states of a generator: after a discharge step no battery is full
GeneratorStates ==
    {g \in [current_mode : ReturnedModes,
            current_soc : [BatteryIds -> {l * SocUnitsPerPct : l \in SocLevels}]] :
        g.current_mode = "discharge" =>
            \A b \in BatteryIds : g.current_soc[b] < FullSoc}

InitMode ==
    /\ \E g1 \in GeneratorStates, g2 \in GeneratorStates, grid_available \in BOOLEAN, scheduled_equalize \in BOOLEAN :
          args = [gen1 |-> g1, gen2 |-> g2,
                  grid_available |-> grid_available,
                  scheduled_equalize |-> scheduled_equalize]
    /\ result = NoResult
    /\ DegIdle /\ PairIdle /\ GenIdle /\ TwinIdle /\ RunIdle

\* lines 430 and 494 of simulate_time_step in both generators
DetermineModes ==
    /\ ~result.done
    /\ result' =
          [done |-> TRUE,
           mode1 |-> determine_mode(args.gen1.current_mode,
                         args.gen1.current_soc, args.grid_available,
                         args.scheduled_equalize),
           mode2 |-> determine_mode(args.gen2.current_mode,
                         args.gen2.current_soc, args.grid_available,
                         args.scheduled_equalize)]
    /\ UNCHANGED <<args, degVars, pairVars, genVars, twinVars, runVars>>

NextMode == DetermineModes

SpecMode == InitMode /\ [][NextMode]_vars

(***************************************************************************)
(* C11: the mode chosen for a step is a function of the grid availability, *)
(* the scheduled-equalization flag and the average SOC of the string only: *)
(* two generators that agree on these three choose the same mode, whatever *)
(* their previous modes and the spread of their batteries' SOC.            *)
(***************************************************************************)
C11_ModeFromThreeInputs ==
    result.done /\ SumSoc(args.gen1.current_soc, BatteryIds)
                       = SumSoc(args.gen2.current_soc, BatteryIds)
        => result.mode1 = result.mode2

(***************************************************************************)
(* C12: on a step with the grid available and no equalization scheduled,   *)
(* a generator whose previous mode was discharge chooses boost if the      *)
(* average SOC of its string is below 95 % and float otherwise; one whose  *)
(* previous mode was boost chooses boost while the average SOC is below    *)
(* 99 % and float as soon as it is not; one in float stays in float.       *)
(***************************************************************************)
C12_RecoveryByAverageSoc ==
    result.done /\ args.grid_available /\ ~args.scheduled_equalize =>
        /\ args.gen1.current_mode = "discharge" =>
              result.mode1 = (IF MeanSocBelow(args.gen1.current_soc, 95)
                              THEN "boost" ELSE "float")
        /\ args.gen1.current_mode = "boost" =>
              result.mode1 = (IF MeanSocBelow(args.gen1.current_soc, 99)
                              THEN "boost" ELSE "float")
        /\ args.gen1.current_mode = "float" => result.mode1 = "float"

(***************************************************************************)
(* Claims checked under SpecGen                                            *)
(***************************************************************************)
\* the string current and the ampere-hours of the last step
StepCurrent == emitted.string.current_a
StepAh == StepCurrent * step.delta_time_hours

\* |ah_change * 0.99 / current_capacity * 100|, held as 100 % from there on
charged_soc_change(model, ah_change) ==
    IF Abs(ah_change) * 990 >= capacity_mah(model)
    THEN FullSoc
    ELSE MulDiv(FullSoc * 990, Abs(ah_change), capacity_mah(model))

(***************************************************************************)
(* C13: in a step with string current I over dt hours, the SOC of each     *)
(* battery that has capacity changes by I * dt / current_capacity * 100,   *)
(* times 0.99 if I > 0 and times 1.0 if I < 0, and is then clamped to      *)
(* [0, 100].                                                               *)
(***************************************************************************)
C13_ChargeEfficiency ==
    step.called =>
        \A b \in BatteryIds :
            step.models_before[b].current_capacity_ah > 0 =>
                current_soc[b] =
                    Clip(step.soc_before[b]
                           + (IF StepCurrent > 0
                              THEN charged_soc_change(step.models_before[b], StepAh)
                              ELSE 0 - soc_change(step.models_before[b], StepAh)),
                         0, FullSoc)

(***************************************************************************)
(* C14: after any sequence of simulate_time_step calls, steps on a battery *)
(* without capacity included, the SOC tracked for every battery and the    *)
(* SOC of its emitted row lie in [0, 100].                                 *)
(***************************************************************************)
C14_SocInRange ==
    \A b \in BatteryIds :
        /\ 0 <= current_soc[b] /\ current_soc[b] <= FullSoc
        /\ 0 <= emitted.jar[b].soc_pct /\ emitted.jar[b].soc_pct <= FullSoc

\* a step has run on a string with a battery without capacity and has taken
\* more charge out of another battery than it held
C14_ClampedBesideDeadBattery ==
    /\ step.called
    /\ \E b \in BatteryIds : step.models_before[b].current_capacity_ah = 0
    /\ \E b \in BatteryIds :
          /\ step.models_before[b].current_capacity_ah > 0
          /\ StepCurrent < 0
          /\ step.soc_before[b] - soc_change(step.models_before[b], StepAh) < 0
          /\ current_soc[b] = 0

(***************************************************************************)
(* C15: when a battery's capacity is 0 at the SOC update, the step changes *)
(* that battery's SOC by 0: it keeps the value it had before the step.     *)
(***************************************************************************)
C15_ZeroCapacityKeepsSoc ==
    step.called =>
        \A b \in BatteryIds :
            step.models_before[b].current_capacity_ah = 0 =>
                current_soc[b] = step.soc_before[b]

(***************************************************************************)
(* Specification SpecNew: a BatteryDegradationModel and a                  *)
(* ThailandEnvironmentModel are constructed from the arguments given       *)
(***************************************************************************)
Regions == {"northern", "northeastern", "central", "eastern", "southern"}

GRID_RELIABILITY ==
    [northern |-> [outages_per_year |-> 4, avg_duration_min |-> 45],
     northeastern |-> [outages_per_year |-> 6, avg_duration_min |-> 60],
     central |-> [outages_per_year |-> 2, avg_duration_min |-> 30],
     eastern |-> [outages_per_year |-> 3, avg_duration_min |-> 40],
     southern |-> [outages_per_year |-> 8, avg_duration_min |-> 90]]

\* BatteryDegradationModel.__init__: self.PROFILES[profile] raises KeyError
\* for a key PROFILES does not have; profile "None" is drawn by
\* np.random.choice, which gives choice
BatteryDegradationModel_init(initial_capacity_ah, profile, choice) ==
    LET name == IF profile = NoMode THEN choice ELSE profile
    IN  IF name \notin DOMAIN PROFILES
        THEN [raised |-> TRUE]
        ELSE [raised |-> FALSE,
              initial_capacity_ah |-> initial_capacity_ah,
              current_capacity_ah |-> initial_capacity_ah,
              self |-> NewBattery(name)]

\* ThailandEnvironmentModel.__init__: self.REGIONAL_CLIMATE[region] raises
\* KeyError for a key it does not have
ThailandEnvironmentModel_init(region) ==
    IF region \notin Regions
    THEN [raised |-> TRUE]
    ELSE [raised |-> FALSE, region |-> region, grid |-> GRID_RELIABILITY[region]]

CapacityArgs == {-120, -1, 0, 1, 120}        \* initial_capacity_ah
ProfileArgs == ProfileNames \cup {NoMode, "unknown", "HEALTHY"}
RegionArgs == Regions \cup {"unknown", "Northern"}

InitNew ==
    /\ \E capacity \in CapacityArgs, profile \in ProfileArgs, region \in RegionArgs :
          args = [initial_capacity_ah |-> capacity, profile |-> profile,
                  region |-> region]
    /\ result = NoResult
    /\ DegIdle /\ PairIdle /\ GenIdle /\ TwinIdle /\ RunIdle

Construct ==
    /\ ~result.done
    /\ \E choice \in ProfileNames :
          result' = [done |-> TRUE,
                     battery |-> BatteryDegradationModel_init(
                                     args.initial_capacity_ah, args.profile,
                                     choice),
                     env |-> ThailandEnvironmentModel_init(args.region)]
    /\ UNCHANGED <<args, degVars, pairVars, genVars, twinVars, runVars>>

NextNew == Construct

SpecNew == InitNew /\ [][NextNew]_vars

(***************************************************************************)
(* C16: constructing a BatteryDegradationModel with a negative initial     *)
(* capacity or an unknown profile key raises an error, and so does         *)
(* constructing a ThailandEnvironmentModel with an unknown region key.     *)
(***************************************************************************)
C16_BadConfigurationRaises ==
    result.done =>
        /\ args.initial_capacity_ah < 0 => result.battery.raised
        /\ args.profile \notin ProfileNames \cup {NoMode} => result.battery.raised
        /\ args.region \notin Regions => result.env.raised

(***************************************************************************)
(* Specification SpecTwin: one BatteryECMDigitalTwin, any sequence of      *)
(* calls of step                                                           *)
(***************************************************************************)
MaxTwinSteps == 3      \* calls of step
TwinDt == SecondsPerHour                     \* dt, seconds
TwinSoh == {80, 100}                         \* initial_soh, percent
TwinCurrents == {-200, -60, 30}              \* measured_current, amperes
TwinTemps == {25, 35}                        \* temperature_c
\* K[0] * innovation, in SOC units: the measured voltage far below, equal
\* to, a little above and far above the predicted one
Corrections == {-120000, 0, 8000, 120000}

\* measured_current and dt of the steps without the filter: the hourly
\* steps, and one second of charging, which moves less than 0.1 Ah
SimpleInputs == {<<c, TwinDt>> : c \in TwinCurrents} \cup {<<30, 1>>}

InitTwin ==
    /\ \E initial_soh \in TwinSoh : twin = NewTwin(initial_soh)
    /\ snapshot = twin_snapshot(twin)
    /\ estimate = NoEstimate
    /\ twin_steps = 0
    /\ DegIdle /\ PairIdle /\ GenIdle /\ FnIdle /\ RunIdle

StepEkf ==
    /\ twin_steps < MaxTwinSteps
    /\ \E measured_current \in TwinCurrents, temperature_c \in TwinTemps, correction \in Corrections :
          /\ twin' = twin_step(twin, measured_current, temperature_c, TwinDt,
                               TRUE, correction)
          /\ estimate' = [stepped |-> TRUE, use_ekf |-> TRUE,
                          x_updated |-> ekf_soc_estimate(twin, measured_current,
                                                         TwinDt, correction),
                          measured_current |-> measured_current,
                          dt |-> TwinDt,
                          simple_steps |-> estimate.simple_steps]
    /\ snapshot' = twin_snapshot(twin')
    /\ twin_steps' = twin_steps + 1
    /\ UNCHANGED <<degVars, pairVars, genVars, fnVars, runVars>>

StepSimple ==
    /\ twin_steps < MaxTwinSteps
    /\ \E input \in SimpleInputs, temperature_c \in TwinTemps :
          /\ twin' = twin_step(twin, input[1], temperature_c, input[2], FALSE, 0)
          /\ estimate' = [stepped |-> TRUE, use_ekf |-> FALSE,
                          x_updated |-> twin'.soc,
                          measured_current |-> input[1],
                          dt |-> input[2],
                          simple_steps |-> estimate.simple_steps + 1]
    /\ snapshot' = twin_snapshot(twin')
    /\ twin_steps' = twin_steps + 1
    /\ UNCHANGED <<degVars, pairVars, genVars, fnVars, runVars>>

NextTwin == StepEkf \/ StepSimple

SpecTwin == InitTwin /\ [][NextTwin]_vars

\* the SOC estimate of the last step was outside [-10, 110] before clamping
Diverged ==
    /\ estimate.stepped /\ estimate.use_ekf
    /\ \/ estimate.x_updated < 0 - 10 * SocUnitsPerPct
       \/ estimate.x_updated > 110 * SocUnitsPerPct

(***************************************************************************)
(* C17: a step of the digital twin whose SOC estimate is outside           *)
(* [-10, 110] before clamping still completes with the SOC clamped to      *)
(* [0, 100], and the dictionary step returns carries a flag that is set    *)
(* for that step and not set for a step without divergence.                *)
(***************************************************************************)
C17_DivergenceFlagged ==
    estimate.stepped =>
        /\ 0 <= snapshot.soc /\ snapshot.soc <= FullSoc
        /\ \E k \in {f \in DOMAIN SnapshotFields : SnapshotFields[f] = "bool"} :
              snapshot[k] = Diverged

(***************************************************************************)
(* Specification SpecOutage: generate_power_outage_events draws its        *)
(* outages one by one and returns them sorted.  Times are minutes since    *)
(* start_date.                                                             *)
(***************************************************************************)
MaxOutages == 2        \* n_outages
MinutesPerDay == 24 * 60
MaxOutageMinutes == 480

\* (end_date - start_date).days of the calls made, with the region
OutageWindows ==
    {<<"southern", 30>>, <<"northern", 100>>, <<"central", 200>>,
     <<"central", 366>>, <<"central", 548>>, <<"northern", 366>>}

\* int(self.grid['outages_per_year'] * days / 365.25)
n_outages(region, days) ==
    (GRID_RELIABILITY[region].outages_per_year * days * 100) \div 36525

RandomDays == {0, 1}                         \* np.random.randint(0, days)
RandomHours == {0, 14, 23}                   \* hour
RandomMinutes == {0, 59}                     \* np.random.randint(0, 60)
RandomDurations == {0, 30, 900}              \* int(np.random.lognormal(..))

\* one (outage_start, outage_end) of the loop
outage(random_day, hour, minute, lognormal) ==
    LET outage_start == random_day * MinutesPerDay + hour * 60 + minute
        duration_min == Min(lognormal, MaxOutageMinutes)
    IN  <<outage_start, outage_start + duration_min>>

\* tuple order of Python: by start, then by end
OutageBefore(a, b) == a[1] < b[1] \/ (a[1] = b[1] /\ a[2] <= b[2])

RECURSIVE Insert(_, _)
Insert(x, sq) ==
    IF sq = <<>> THEN <<x>>
    ELSE IF OutageBefore(x, Head(sq)) THEN <<x>> \o sq
    ELSE <<Head(sq)>> \o Insert(x, Tail(sq))

\* sorted(outages)
RECURSIVE sorted(_)
sorted(sq) == IF sq = <<>> THEN <<>> ELSE Insert(Head(sq), sorted(Tail(sq)))

InitOutage ==
    /\ \E w \in OutageWindows :
          /\ n_outages(w[1], w[2]) <= MaxOutages
          /\ args = [region |-> w[1], days |-> w[2]]
    /\ result = [done |-> FALSE, outages |-> <<>>, returned |-> <<>>]
    /\ DegIdle /\ PairIdle /\ GenIdle /\ TwinIdle /\ RunIdle

\* one pass of the loop over range(n_outages)
DrawOutage ==
    /\ ~result.done
    /\ Len(result.outages) < n_outages(args.region, args.days)
    /\ \E random_day \in RandomDays, hour \in RandomHours, minute \in RandomMinutes, lognormal \in RandomDurations :
          /\ random_day < args.days
          /\ result' = [result EXCEPT
                          !.outages = Append(@, outage(random_day, hour,
                                                       minute, lognormal))]
    /\ UNCHANGED <<args, degVars, pairVars, genVars, twinVars, runVars>>

ReturnOutages ==
    /\ ~result.done
    /\ Len(result.outages) = n_outages(args.region, args.days)
    /\ result' = [result EXCEPT !.done = TRUE, !.returned = sorted(result.outages)]
    /\ UNCHANGED <<args, degVars, pairVars, genVars, twinVars, runVars>>

NextOutage == DrawOutage \/ ReturnOutages

SpecOutage == InitOutage /\ [][NextOutage]_vars

(***************************************************************************)
(* C18: the list generate_power_outage_events returns is sorted ascending  *)
(* by start, no interval of it starts before the one before it has ended,  *)
(* and every interval lasts at most 480 minutes.                           *)
(***************************************************************************)
C18_OutagesSortedDisjoint ==
    result.done =>
        /\ \A i \in 1..(Len(result.returned) - 1) :
              /\ result.returned[i][1] <= result.returned[i + 1][1]
              /\ result.returned[i][2] <= result.returned[i + 1][1]
        /\ \A i \in 1..Len(result.returned) :
              result.returned[i][2] - result.returned[i][1] <= MaxOutageMinutes

(***************************************************************************)
(* Specification SpecHvac: simulate_hvac_status applied to a status, an    *)
(* outdoor temperature and the values its random draws give.  Random       *)
(* numbers in millionths, efficiencies in hundredths, temperatures in      *)
(* hundredths of a degree.                                                 *)
(***************************************************************************)
SEASONS ==
    [hot |-> [hvac_load_factor_x10 |-> 13],
     rainy |-> [hvac_load_factor_x10 |-> 11],
     cool |-> [hvac_load_factor_x10 |-> 8]]

HVAC_PATTERNS ==
    [normal |-> [efficiency |-> 95, temp_control_std |-> 100],
     degraded |-> [efficiency |-> 75, temp_control_std |-> 300],
     failed |-> [efficiency |-> 0, temp_control_std |-> 800]]

HvacStatuses == {"running", "degraded", "fault"}

\* the state transition of simulate_hvac_status; the second draw is made
\* only if the first test fails
new_hvac_status(current_status, load_factor_x10, draw1, draw2) ==
    IF current_status = "running"
    THEN IF draw1 < 10 * load_factor_x10 THEN "degraded"
         ELSE IF draw2 < 2 * load_factor_x10 THEN "fault"
         ELSE "running"
    ELSE IF current_status = "degraded"
    THEN IF draw1 < 1000 THEN "running"
         ELSE IF draw2 < 500 THEN "fault"
         ELSE "degraded"
    ELSE IF draw1 < 10000 THEN "running" ELSE "fault"

\* self.HVAC_PATTERNS.get(new_status, self.HVAC_PATTERNS['normal'])
hvac_params(new_status) ==
    IF new_status \in DOMAIN HVAC_PATTERNS
    THEN HVAC_PATTERNS[new_status]
    ELSE HVAC_PATTERNS["normal"]

\* simulate_hvac_status; noise is np.random.normal(0, 1) times temp_std
simulate_hvac_status(season, current_status, outdoor_temp, draw1, draw2, noise) ==
    LET new_status == new_hvac_status(current_status,
                          SEASONS[season].hvac_load_factor_x10, draw1, draw2)
        efficiency == hvac_params(new_status).efficiency
        temp_std == hvac_params(new_status).temp_control_std
    IN  [status |-> new_status,
         efficiency |-> efficiency,
         indoor_temp |-> 24 * 100 + (outdoor_temp - 24) * (100 - efficiency)
                           + noise * temp_std]

HvacDraws == {0, 20, 100, 700, 5000, 500000} \* np.random.random()
OutdoorTemps == {24, 30, 40}                 \* outdoor_temp, degrees C
HvacNoise == {-1, 0, 1}                      \* np.random.normal(0, 1)

InitHvac ==
    /\ \E season \in DOMAIN SEASONS, current_status \in HvacStatuses, outdoor_temp \in OutdoorTemps :
          args = [season |-> season, current_status |-> current_status,
                  outdoor_temp |-> outdoor_temp]
    /\ result = NoResult
    /\ DegIdle /\ PairIdle /\ GenIdle /\ TwinIdle /\ RunIdle

SimulateHvacStatus ==
    /\ ~result.done
    /\ \E draw1 \in HvacDraws, draw2 \in HvacDraws, noise \in HvacNoise :
          result' = [done |-> TRUE,
                     hvac |-> simulate_hvac_status(args.season,
                                  args.current_status, args.outdoor_temp,
                                  draw1, draw2, noise)]
    /\ UNCHANGED <<args, degVars, pairVars, genVars, twinVars, runVars>>

NextHvac == SimulateHvacStatus

SpecHvac == InitHvac /\ [][NextHvac]_vars

(***************************************************************************)
(* C19: the efficiency simulate_hvac_status blends the outdoor temperature *)
(* and the setpoint with is the one of the resulting status: 0.0 for       *)
(* fault, 0.75 for degraded, 0.95 for running.                             *)
(***************************************************************************)
C19_EfficiencyOfResultingStatus ==
    result.done =>
        result.hvac.efficiency =
            (CASE result.hvac.status = "fault" -> HVAC_PATTERNS.failed.efficiency
               [] result.hvac.status = "degraded" -> HVAC_PATTERNS.degraded.efficiency
               [] result.hvac.status = "running" -> HVAC_PATTERNS.normal.efficiency)

(***************************************************************************)
(* Specification SpecOcv: get_ocv applied to two SOC values on one         *)
(* battery.  SOC in whole percent, voltages in units of 10^-8 V.           *)
(***************************************************************************)
OcvUnitsPerVolt == 10000 * 10000

\* 11.8 + 0.9 * soc + 0.05 * soc ** 3 with soc = soc_pct / 100, given the
\* normalized SOC in hundredths
ocv_curve(soc) == 118 * (OcvUnitsPerVolt \div 10) + 900000 * soc + 5 * soc * soc * soc

\* 0.95 + 0.05 * (self.current_soh_pct / 100.0), in 1/100000, from the SOH
\* in tenths of a percent
soh_factor(self) == 95000 + 5 * (self.current_soh_pct \div (SohUnitsPerPct \div 10))

\* get_ocv without np.clip(.., 0.0, 1.0)
get_ocv_unclipped(self, soc_pct) == MulDiv(ocv_curve(soc_pct), soh_factor(self), 100000)

\* get_ocv(soc_pct)
get_ocv(self, soc_pct) == MulDiv(ocv_curve(Clip(soc_pct, 0, 100)), soh_factor(self), 100000)

SocArgs == {-20, -1, 0, 1, 25, 50, 75, 99, 100, 101, 120}   \* soc_pct
\* batteries at full SOH and after a year of service
OcvBatteries ==
    {NewBattery(p) : p \in ProfileNames}
        \cup {ServedBattery(p, DaysPerYear * HoursPerDay) : p \in ProfileNames}

InitOcv ==
    /\ \E model \in OcvBatteries, soc1 \in SocArgs, soc2 \in SocArgs :
          args = [model |-> model, soc1 |-> soc1, soc2 |-> soc2]
    /\ result = NoResult
    /\ DegIdle /\ PairIdle /\ GenIdle /\ TwinIdle /\ RunIdle

GetOcv ==
    /\ ~result.done
    /\ result' = [done |-> TRUE,
                  ocv1 |-> get_ocv(args.model, args.soc1),
                  ocv2 |-> get_ocv(args.model, args.soc2)]
    /\ UNCHANGED <<args, degVars, pairVars, genVars, twinVars, runVars>>

NextOcv == GetOcv

SpecOcv == InitOcv /\ [][NextOcv]_vars

(***************************************************************************)
(* C20: for a battery at full SOH the open-circuit voltage is strictly     *)
(* increasing in SOC over [0, 100], OCV(0) is inside (11.5, 12.0) V and    *)
(* OCV(100) inside (12.5, 13.0) V, and a SOC outside [0, 100] gives the    *)
(* voltage of the nearest bound.                                           *)
(***************************************************************************)
C20_OcvMonotonic ==
    result.done /\ args.model.current_soh_pct = FullSoh =>
        /\ Clip(args.soc1, 0, 100) < Clip(args.soc2, 0, 100) =>
              result.ocv1 < result.ocv2
        /\ Clip(args.soc1, 0, 100) = Clip(args.soc2, 0, 100) =>
              result.ocv1 = result.ocv2
        /\ args.soc1 <= 0 =>
              /\ 115 * (OcvUnitsPerVolt \div 10) < result.ocv1
              /\ result.ocv1 < 12 * OcvUnitsPerVolt
        /\ args.soc1 >= 100 =>
              /\ 125 * (OcvUnitsPerVolt \div 10) < result.ocv1
              /\ result.ocv1 < 13 * OcvUnitsPerVolt

\* the voltage was taken below and above the range and at two neighbouring
\* SOC inside it
C20_ComparedAcrossRange ==
    /\ result.done /\ args.model.current_soh_pct = FullSoh
    /\ \/ args.soc1 < 0 /\ args.soc2 > 100
       \/ args.soc1 = 99 /\ args.soc2 = 100
    /\ result.ocv1 < result.ocv2

(***************************************************************************)
(* Specification SpecSeed: two Python processes are given the same seed    *)
(* and configuration; each builds its battery models without a profile,    *)
(* then a TelemetryGenerator, and runs the steps of generate_timeseries    *)
(* with the grid available, the HVAC running and one degree of indoor      *)
(* noise.  "direct" passes the seed itself to every constructor in a       *)
(* process that has not seeded numpy; "pipeline" is BatteryDataPipeline,   *)
(* which seeds numpy at its construction and gives each battery model      *)
(* seed + hash(battery_id) % 10000, where hash of a str depends on the     *)
(* hash salt of the process.                                               *)
(***************************************************************************)
MaxRows == 2           \* steps of generate_timeseries

Builders == {"direct", "pipeline"}
Seeds == {42}
Entropy == {1000, 1002}      \* the RandomState of a process that never seeded
HashValues == {0, 6}         \* hash(battery_id) % 10000

\* PROFILE_DISTRIBUTION, in hundredths
PROFILE_DISTRIBUTION == [healthy |-> 85, accelerated |-> 12, failing |-> 3]

\* np.random.choice(list(keys), p = list(values)) for the draw u
random_choice(u) ==
    IF u < PROFILE_DISTRIBUTION.healthy THEN "healthy"
    ELSE IF u < PROFILE_DISTRIBUTION.healthy + PROFILE_DISTRIBUTION.accelerated
         THEN "accelerated"
         ELSE "failing"

\* the batteries of a process in the order they are built
NextBattery(run) ==
    IF run.models["B1"] = NoModel THEN "B1" ELSE "B2"

AllBuilt(run) == \A b \in BatteryIds : run.models[b] # NoModel

\* one iteration of generate_timeseries: simulate_time_step with the draws
\* taken from the state of the process's RandomState
timeseries_step(run, state) ==
    LET mode == determine_mode(run.current_mode, run.current_soc, TRUE, FALSE)
        string_current == generate_string_current(run.current_soc, "RECTIFIER",
                              mode, LoadFactorX10, Random(state) \div 50)
        counted == update_soc(run.models, run.current_soc, string_current,
                              StepHours)
        indoor_temp == indoor_temperature("running", 30, 1)
        trial == Advanced(state)
        models == [b \in BatteryIds |->
                      degrade(counted.battery_models[b], counted.current_soc[b],
                              mode, string_current, StepHours, indoor_temp,
                              Len(run.rows) + 1, Random(trial) * 100, "dry_out")]
    IN  [run |-> [run EXCEPT
                    !.models = models,
                    !.current_soc = counted.current_soc,
                    !.current_mode = mode,
                    !.rows = Append(@,
                        [jar |-> [b \in BatteryIds |->
                                     jar_row(models[b], counted.current_soc[b], 25)],
                         string |-> string_row(run.current_mode, mode,
                                               string_current)])],
         np_random |-> Advanced(trial)]

InitSeed ==
    /\ \E builder \in Builders, seed \in Seeds :
          /\ args = [builder |-> builder, seed |-> seed]
          /\ IF builder = "direct"
             THEN np_random \in [Procs -> {Seeded(e) : e \in Entropy}]
             ELSE np_random = [p \in Procs |-> Seeded(seed)]
    /\ result = NoResult
    /\ runs = [p \in Procs |-> NoRun]
    /\ series = NoSeries
    /\ DegIdle /\ PairIdle /\ GenIdle /\ TwinIdle

\* BatteryDegradationModel(battery_id, .., profile = None, seed = ..): the
\* profile is drawn, and after it the RandomState is seeded
BuildBattery(p) ==
    /\ ~AllBuilt(runs[p])
    /\ \E h \in HashValues :
          LET built == BatteryDegradationModel_init(InitialCapacityAh, NoMode,
                           random_choice(Random(np_random[p])))
              seed == IF args.builder = "direct" THEN args.seed
                                                 ELSE args.seed + h
          IN  /\ runs' = [runs EXCEPT ![p].models[NextBattery(runs[p])] = built.self]
              /\ np_random' = [np_random EXCEPT ![p] = Seeded(seed)]
    /\ UNCHANGED <<series, fnVars, degVars, pairVars, genVars, twinVars>>

\* TelemetryGenerator(battery_models, .., seed = seed), which builds its
\* ThailandEnvironmentModel with the same seed
BuildGenerator(p) ==
    /\ AllBuilt(runs[p])
    /\ ~runs[p].generator
    /\ runs' = [runs EXCEPT ![p].generator = TRUE]
    /\ np_random' = [np_random EXCEPT ![p] = Seeded(args.seed)]
    /\ UNCHANGED <<series, fnVars, degVars, pairVars, genVars, twinVars>>

TimeStep(p) ==
    /\ runs[p].generator
    /\ Len(runs[p].rows) < MaxRows
    /\ LET stepped == timeseries_step(runs[p], np_random[p])
       IN  /\ runs' = [runs EXCEPT ![p] = stepped.run]
           /\ np_random' = [np_random EXCEPT ![p] = stepped.np_random]
    /\ UNCHANGED <<series, fnVars, degVars, pairVars, genVars, twinVars>>

NextSeed == \E p \in Procs : BuildBattery(p) \/ BuildGenerator(p) \/ TimeStep(p)

SpecSeed == InitSeed /\ [][NextSeed]_vars

Finished(run) == run.generator /\ Len(run.rows) = MaxRows

(***************************************************************************)
(* C21: two runs with the same seed and configuration, each building fresh *)
(* battery models (their profiles assigned at random), a fresh environment *)
(* model and a fresh TelemetryGenerator, assign the same profiles and emit *)
(* the same sequence of battery and string rows.  Violated: the profile of *)
(* the first battery is drawn before anything seeds the RandomState, and   *)
(* the seeds of the pipeline's batteries depend on the hash salt.          *)
(***************************************************************************)
C21_SameSeedSameRows ==
    Finished(runs[1]) /\ Finished(runs[2]) =>
        /\ \A b \in BatteryIds :
              runs[1].models[b].profile_name = runs[2].models[b].profile_name
        /\ runs[1].rows = runs[2].rows

(***************************************************************************)
(* Specification SpecShare: one Python process holds two independent       *)
(* TelemetryGenerators, each over its own battery models; their steps run  *)
(* in any order, and an environment model of another location may be       *)
(* constructed in between.  np_random[1] is the RandomState of the         *)
(* process, runs[g] the generator g.                                       *)
(***************************************************************************)
ShareSeeds == {7, 42}

\* a generator after its construction, over batteries of the profile given
BuiltGenerator(profile) ==
    [NoRun EXCEPT !.models = [b \in BatteryIds |-> NewBattery(profile)],
                  !.generator = TRUE]

\* n steps of generate_timeseries made one after the other
RECURSIVE Stepped(_, _, _)
Stepped(run, state, n) ==
    IF n = 0 THEN [run |-> run, np_random |-> state]
    ELSE LET first == timeseries_step(run, state)
         IN  Stepped(first.run, first.np_random, n - 1)

InitShare ==
    /\ \E seed \in ShareSeeds, profile1 \in ProfileNames, profile2 \in ProfileNames :
          /\ args = [seed |-> seed, profile1 |-> profile1, profile2 |-> profile2]
          /\ runs = [g \in Procs |->
                        BuiltGenerator(IF g = 1 THEN profile1 ELSE profile2)]
          /\ np_random = [p \in Procs |-> Seeded(seed)]
    /\ result = NoResult
    /\ series = NoSeries
    /\ DegIdle /\ PairIdle /\ GenIdle /\ TwinIdle

\* a step of generate_timeseries of generator g
ShareStep(g) ==
    /\ Len(runs[g].rows) < MaxRows
    /\ LET stepped == timeseries_step(runs[g], np_random[1])
       IN  /\ runs' = [runs EXCEPT ![g] = stepped.run]
           /\ np_random' = [np_random EXCEPT ![1] = stepped.np_random]
    /\ UNCHANGED <<series, fnVars, degVars, pairVars, genVars, twinVars>>

\* ThailandEnvironmentModel(region, seed = seed) of another location
BuildEnvironment ==
    /\ ~result.done
    /\ result' = [done |-> TRUE]
    /\ np_random' = [np_random EXCEPT ![1] = Seeded(args.seed)]
    /\ UNCHANGED <<args, runs, series, degVars, pairVars, genVars, twinVars>>

NextShare == BuildEnvironment \/ \E g \in Procs : ShareStep(g)

SpecShare == InitShare /\ [][NextShare]_vars

\* the two generators run one after the other, nothing else in between
OneAfterTheOther ==
    LET first == Stepped(BuiltGenerator(args.profile1), Seeded(args.seed), MaxRows)
        second == Stepped(BuiltGenerator(args.profile2), first.np_random, MaxRows)
    IN  <<first.run.rows, second.run.rows>>

(***************************************************************************)
(* C22: an operation on one entity never changes the later stochastic      *)
(* outcomes of another: whatever the order in which the steps of two       *)
(* independent generators are interleaved, and whatever else is            *)
(* constructed in between, each generator emits the row sequence it emits  *)
(* when the two run one after the other.  Violated: all entities draw from *)
(* the one RandomState of the process.                                     *)
(***************************************************************************)
C22_InterleavingKeepsRows ==
    (\A g \in Procs : Len(runs[g].rows) = MaxRows) =>
        \A g \in Procs : runs[g].rows = OneAfterTheOther[g]

(***************************************************************************)
(* Specification SpecSeries: one call of generate_timeseries, an action    *)
(* per iteration of its loop.  Times are seconds since start_date.  The    *)
(* generator serves the batteries of BatteryIds and the strings of         *)
(* StringIds; a row is held as its timestamp, its table and its id.        *)
(***************************************************************************)
MaxHorizonHours == 2   \* end_date - start_date, at most

StringIds == {"S1", "S2"}                        \* rows of string_info
SamplingIntervals == {900, 1500, 1800, 3600, 5400}  \* sampling_interval_seconds
EndDates == {1, 3600, 4000} \cup {h * SecondsPerHour : h \in 1..MaxHorizonHours}

\* the ids in the order the loops go through them
Ordered(ids) ==
    IF ids = BatteryIds THEN <<"B1", "B2">> ELSE <<"S1", "S2">>

\* the rows simulate_time_step returns for timestamp: jar_telemetry and
\* string_telemetry
step_rows(timestamp) ==
    [jar |-> [i \in 1..2 |-> [ts |-> timestamp, id |-> Ordered(BatteryIds)[i]]],
     string |-> [i \in 1..2 |-> [ts |-> timestamp, id |-> Ordered(StringIds)[i]]]]

\* step_count % (3600 // sampling_interval_seconds) == 0, or the
\* ZeroDivisionError of the modulo
hourly(step_count, sampling_interval_seconds) ==
    IF SecondsPerHour \div sampling_interval_seconds = 0
    THEN [raised |-> "ZeroDivisionError", due |-> FALSE]
    ELSE [raised |-> "None",
          due |-> step_count % (SecondsPerHour \div sampling_interval_seconds) = 0]

InitSeries ==
    /\ \E end_date \in EndDates, sampling_interval_seconds \in SamplingIntervals, outdoor_temp \in OutdoorTemps :
          /\ args = [end_date |-> end_date,
                     sampling_interval_seconds |-> sampling_interval_seconds]
          /\ series = [NoSeries EXCEPT !.outdoor_temp = outdoor_temp]
    /\ result = NoResult
    /\ np_random = [p \in Procs |-> Seeded(0)]
    /\ runs = [p \in Procs |-> NoRun]
    /\ DegIdle /\ PairIdle /\ GenIdle /\ TwinIdle

\* the body of while current_time < end_date
Iterate ==
    /\ ~series.raised /\ ~series.returned
    /\ series.current_time < args.end_date
    /\ LET every_hour == hourly(series.step_count, args.sampling_interval_seconds)
           refresh == every_hour.due
       IN  IF every_hour.raised # "None"
           THEN series' = [series EXCEPT !.raised = TRUE]
           ELSE \E temp \in OutdoorTemps, draw1 \in {0, 500000} :
                  LET outdoor_temp == IF refresh THEN temp ELSE series.outdoor_temp
                      hvac_status ==
                          IF refresh
                          THEN new_hvac_status(series.hvac_status,
                                   SEASONS.hot.hvac_load_factor_x10, draw1, 500000)
                          ELSE series.hvac_status
                      emitted_rows == step_rows(series.current_time)
                  IN  series' =
                        [series EXCEPT
                           !.outdoor_temp = outdoor_temp,
                           !.hvac_status = hvac_status,
                           !.env = Append(@, [ts |-> series.current_time,
                                              refreshed |-> refresh,
                                              outdoor_temp |-> outdoor_temp,
                                              hvac_status |-> hvac_status]),
                           !.rows = [jar |-> @.jar \o emitted_rows.jar,
                                     string |-> @.string \o emitted_rows.string],
                           !.current_time = @ + args.sampling_interval_seconds,
                           !.step_count = @ + 1]
    /\ UNCHANGED <<fnVars, np_random, runs, degVars, pairVars, genVars, twinVars>>

\* the loop is left and the two data frames are returned
ReturnSeries ==
    /\ ~series.raised /\ ~series.returned
    /\ series.current_time >= args.end_date
    /\ series' = [series EXCEPT !.returned = TRUE]
    /\ UNCHANGED <<fnVars, np_random, runs, degVars, pairVars, genVars, twinVars>>

NextSeries == Iterate \/ ReturnSeries

SpecSeries == InitSeries /\ [][NextSeries]_vars

\* the timestamps start_date + k * interval before end_date
Timestamps ==
    {k * args.sampling_interval_seconds : k \in 0..(MaxHorizonHours * SecondsPerHour)}
        \cap 0..(args.end_date - 1)

\* the rows of one table: one per id and timestamp of Timestamps, no other,
\* in increasing timestamp order
OneRowEach(rows, ids) ==
    /\ \A t \in Timestamps, i \in ids :
          Cardinality({n \in 1..Len(rows) : rows[n].ts = t /\ rows[n].id = i}) = 1
    /\ \A n \in 1..Len(rows) : rows[n].ts \in Timestamps /\ rows[n].id \in ids
    /\ \A n1 \in 1..Len(rows), n2 \in 1..Len(rows) :
          n1 < n2 => rows[n1].ts <= rows[n2].ts

(***************************************************************************)
(* C23: generate_timeseries terminates for every start_date < end_date and *)
(* positive sampling interval: it never raises, it makes no more           *)
(* iterations than there are timestamps start_date + k * interval before   *)
(* end_date, and when it returns it has emitted for each of these          *)
(* timestamps, and for no other, exactly one row per battery and one per   *)
(* string, in increasing timestamp order.  Violated for an interval of     *)
(* more than an hour: the call raises ZeroDivisionError in its first       *)
(* iteration and returns nothing.                                          *)
(***************************************************************************)
C23_ReturnsOneRowEach ==
    /\ ~series.raised
    /\ series.step_count <= Cardinality(Timestamps)
    /\ series.returned =>
          /\ OneRowEach(series.rows.jar, BatteryIds)
          /\ OneRowEach(series.rows.string, StringIds)

(***************************************************************************)
(* C27: for every positive sampling interval, also one that does not       *)
(* divide 3600 s or is longer than an hour, generate_timeseries refreshes  *)
(* the outdoor temperature and the HVAC status in its first step and at    *)
(* least once per simulated hour after it, holds them between refreshes,   *)
(* and does not raise.  Violated for an interval of more than an hour:     *)
(* 3600 // sampling_interval_seconds is 0 and the modulo raises.           *)
(***************************************************************************)
C27_RefreshedEveryHour ==
    /\ ~series.raised
    /\ \A n \in 1..Len(series.env) :
          /\ \E m \in 1..n :
                /\ series.env[m].refreshed
                /\ series.env[n].ts - series.env[m].ts < SecondsPerHour
          /\ n > 1 /\ ~series.env[n].refreshed =>
                /\ series.env[n].outdoor_temp = series.env[n - 1].outdoor_temp
                /\ series.env[n].hvac_status = series.env[n - 1].hvac_status

(***************************************************************************)
(* Specification SpecFusion: HybridPredictor.adaptive_fusion applied to    *)
(* one ML prediction and one pair of voltages.  Voltages in millivolts,    *)
(* weights in hundredths, RUL in days and the fused RUL in hundredths of a *)
(* day.                                                                    *)
(***************************************************************************)
\* weight_dt chosen with <= in place of <
adaptive_weight_inclusive(voltage_error) ==
    IF voltage_error <= 50 THEN 80
    ELSE IF voltage_error <= 100 THEN 65
    ELSE IF voltage_error <= 200 THEN 50
    ELSE 30

\* weight_dt of adaptive_fusion
adaptive_weight(voltage_error) ==
    IF voltage_error < 50 THEN 80
    ELSE IF voltage_error < 100 THEN 65
    ELSE IF voltage_error < 200 THEN 50
    ELSE 30

\* adaptive_fusion(ml_prediction, measured_voltage, predicted_voltage), with
\* dt_rul the value self.digital_twin.predict_rul() returns
adaptive_fusion(dt_rul, ml_prediction, measured_voltage, predicted_voltage) ==
    LET voltage_error == Abs(measured_voltage - predicted_voltage)
        weight_dt == adaptive_weight(voltage_error)
        weight_ml == 100 - weight_dt
    IN  [weight_dt |-> weight_dt, weight_ml |-> weight_ml,
         fused_rul |-> dt_rul * weight_dt + ml_prediction * weight_ml]

TwinRuls == {0, 365, 2000}                   \* predict_rul(), days
MlPredictions == {-10, 365, 3650}            \* ml_prediction, days
MeasuredVoltages == {12000, 13500}           \* measured_voltage
\* predicted_voltage - measured_voltage
VoltageErrors ==
    {-500, -200, -199, -100, -99, -50, -49, 0, 49, 50, 99, 100, 199, 200, 500}

InitFusion ==
    /\ \E dt_rul \in TwinRuls, ml_prediction \in MlPredictions, measured_voltage \in MeasuredVoltages, voltage_error \in VoltageErrors :
          args = [dt_rul |-> dt_rul, ml_prediction |-> ml_prediction,
                  measured_voltage |-> measured_voltage,
                  predicted_voltage |-> measured_voltage + voltage_error]
    /\ result = NoResult
    /\ DegIdle /\ PairIdle /\ GenIdle /\ TwinIdle /\ RunIdle

AdaptiveFusion ==
    /\ ~result.done
    /\ result' = [done |-> TRUE,
                  fusion |-> adaptive_fusion(args.dt_rul, args.ml_prediction,
                                 args.measured_voltage, args.predicted_voltage)]
    /\ UNCHANGED <<args, degVars, pairVars, genVars, twinVars, runVars>>

NextFusion == AdaptiveFusion

SpecFusion == InitFusion /\ [][NextFusion]_vars

\* |measured - predicted| of the call, in millivolts
Residual == Abs(args.measured_voltage - args.predicted_voltage)

(***************************************************************************)
(* C24: adaptive fusion gives the twin the weight 0.8 if the absolute      *)
(* voltage residual e is below 0.05 V, 0.65 if 0.05 <= e < 0.1, 0.5 if     *)
(* 0.1 <= e < 0.2 and 0.3 otherwise; the ML weight is 1 minus the twin's,  *)
(* and the fused RUL lies between the twin's RUL and the ML RUL.           *)
(***************************************************************************)
C24_WeightByResidual ==
    result.done =>
        /\ Residual < 50 => result.fusion.weight_dt = 80
        /\ 50 <= Residual /\ Residual < 100 => result.fusion.weight_dt = 65
        /\ 100 <= Residual /\ Residual < 200 => result.fusion.weight_dt = 50
        /\ 200 <= Residual => result.fusion.weight_dt = 30
        /\ result.fusion.weight_ml = 100 - result.fusion.weight_dt
        /\ result.fusion.fused_rul >= 100 * Min(args.dt_rul, args.ml_prediction)
        /\ result.fusion.fused_rul <= 100 * Max(args.dt_rul, args.ml_prediction)

\* a residual of exactly 0.05 V took the weight 0.65, and the fused RUL fell
\* strictly between two different predictions
C24_FusedAtThreshold ==
    /\ result.done
    /\ Residual = 50
    /\ result.fusion.weight_dt = 65
    /\ args.dt_rul < args.ml_prediction
    /\ 100 * args.dt_rul < result.fusion.fused_rul
    /\ result.fusion.fused_rul < 100 * args.ml_prediction

(***************************************************************************)
(* Claims checked under SpecGen: the frame and the order of a step         *)
(***************************************************************************)

(***************************************************************************)
(* C25: charge throughput is counted once.  A simulate_time_step adds to   *)
(* each battery's cumulative_ah_throughput |I * dt| if the string is       *)
(* discharging and nothing otherwise, and after any sequence of steps      *)
(* cumulative_ah_throughput equals cycle_count * initial_capacity_ah.      *)
(* Violated: update_soc adds the discharged ampere-hours, and              *)
(* update_cycle_aging adds them a second time in the same step.            *)
(***************************************************************************)
C25_ThroughputCountedOnce ==
    step.called =>
        \A b \in BatteryIds :
            /\ battery_models[b].cumulative_ah_throughput
                   - step.models_before[b].cumulative_ah_throughput
                 = (IF StepCurrent < 0 THEN Abs(StepAh) ELSE 0)
            /\ battery_models[b].cumulative_ah_throughput
                 = battery_models[b].cycle_count

(***************************************************************************)
(* C26: within a step the SOC update comes first, then the temperature,    *)
(* terminal voltage and resistance, then calendar and cycle aging, then    *)
(* the sudden-failure roll: the resistance and the SOH of the battery row  *)
(* emitted for a step are those of the degradation state before the aging  *)
(* and the failure roll of that step.  Violated: the aging and the failure *)
(* roll run before the rows are computed.                                  *)
(***************************************************************************)
C26_RowFromStateBeforeAging ==
    step.called =>
        \A b \in BatteryIds :
            /\ emitted.jar[b].resistance_mohm
                 = step.models_before[b].current_resistance_mohm
            /\ emitted.jar[b].soh_pct = step.models_before[b].current_soh_pct

(***************************************************************************)
(* C28: in the string row of a step, transfer_event_flag is true exactly   *)
(* when the mode of the step is discharge and the mode of the step before  *)
(* (float before the first step) was not: it is false on every later step  *)
(* of the same discharge; and equalize_flag is true exactly when the mode  *)
(* of the row is equalize.                                                 *)
(***************************************************************************)
C28_TransferFlagOnEntry ==
    step.called =>
        /\ emitted.string.transfer_event_flag
             = (emitted.string.mode = "discharge"
                  /\ step.mode_before # "discharge")
        /\ emitted.string.equalize_flag = (emitted.string.mode = "equalize")
        /\ emitted.string.mode = current_mode

\* the second step of an uninterrupted discharge: its row is not flagged
C28_SecondDischargeStep ==
    /\ step.called
    /\ steps >= 2
    /\ step.mode_before = "discharge"
    /\ emitted.string.mode = "discharge"
    /\ ~emitted.string.transfer_event_flag

(***************************************************************************)
(* C29: boost is chosen only in a step whose previous mode was discharge   *)
(* or boost, and idle is never chosen: after an equalization that followed *)
(* a discharge the string returns to float without a boost step, even with *)
(* its SOC below 95 %.                                                     *)
(***************************************************************************)
C29_BoostOnlyAfterDischarge ==
    step.called =>
        /\ current_mode = "boost" => step.mode_before \in {"discharge", "boost"}
        /\ current_mode # "idle"
        /\ (step.mode_before = "equalize" /\ step.grid_available
              /\ ~step.scheduled_equalize) => current_mode = "float"

\* the step after an equalization chose float with the string below 95 %
C29_FloatAfterEqualizeBelow95 ==
    /\ step.called
    /\ step.mode_before = "equalize"
    /\ MinSoc(step.soc_before) < 95 * SocUnitsPerPct
    /\ step.grid_available /\ ~step.scheduled_equalize
    /\ current_mode = "float"

(***************************************************************************)
(* Claims checked under SpecTwin: the counters of the twin                 *)
(***************************************************************************)
\* |ah_change| of update_soc for the last step, in thousandths of an
\* ampere-hour: 99 % of the charge moved when charging
CountedAh ==
    IF estimate'.measured_current > 0
    THEN (twin_ah(estimate'.measured_current, estimate'.dt) * 99) \div 100
    ELSE twin_ah(estimate'.measured_current, estimate'.dt)

(***************************************************************************)
(* C30: a step of the digital twin with use_ekf = True changes neither     *)
(* cycle_count nor ah_throughput: after any sequence of EKF steps, with    *)
(* any currents, both are 0 and the cycle acceleration of predict_rul is   *)
(* 1.0.  A step with use_ekf = False adds |delta Ah| to ah_throughput and, *)
(* if |delta Ah| > 0.1, |delta Ah| / nominal capacity to cycle_count.      *)
(***************************************************************************)
C30_EkfKeepsCounters ==
    [][twin_steps' = twin_steps + 1 =>
          /\ estimate'.use_ekf =>
                /\ twin'.cycle_count = twin.cycle_count
                /\ twin'.ah_throughput = twin.ah_throughput
          /\ estimate'.simple_steps = 0 =>
                /\ twin'.cycle_count = 0
                /\ twin'.ah_throughput = 0
                /\ cycle_accel(twin') = 10
          /\ ~estimate'.use_ekf =>
                /\ twin'.ah_throughput = twin.ah_throughput + CountedAh
                /\ twin'.cycle_count
                     = twin.cycle_count + (IF CountedAh > 100 THEN CountedAh ELSE 0)
      ]_vars

\* as many EKF steps as the bound allows, all with a current, and the
\* counters still at 0
C30_OnlyEkfSteps ==
    /\ twin_steps = MaxTwinSteps
    /\ estimate.use_ekf /\ estimate.simple_steps = 0
    /\ estimate.measured_current = -200
    /\ twin.soc < FullSoc
    /\ twin.cycle_count = 0 /\ twin.ah_throughput = 0

====
